---- MODULE Spec2Model ----
(***************************************************************************)
(* Model of the MemoryService orchestration layer of powermem              *)
(* (src/src/server/services/memory_service.py).                            *)
(*                                                                         *)
(* Python values are encoded as follows.                                   *)
(*   - An optional value is a sequence: <<>> is None, <<v>> is the value v.*)
(*   - A dict is a function whose DOMAIN is the set of its keys.           *)
(*   - The outcome of a call is a record whose "state" field tells whether *)
(*     it returned a value or raised an exception.                         *)
(***************************************************************************)
EXTENDS Integers, Sequences, FiniteSets, TLC

VARIABLES store, pc, args, pending, ret, trace, call, out

vars == <<store, pc, args, pending, ret, trace, call, out>>

(***************************************************************************)
(* Python values                                                           *)
(***************************************************************************)
None == <<>>

Some(v) == <<v>>

IsNone(o) == Len(o) = 0

EmptyDict == [k \in {} |-> 0]

\* d.get(k, default) for a dict whose values are optional values
PyGet(d, k, default) == IF k \in DOMAIN d THEN d[k] ELSE default

\* d[k] = v
PySet(d, k, v) == [x \in DOMAIN d \cup {k} |-> IF x = k THEN v ELSE d[x]]

\* {**a, **b}
DictMerge(a, b) == [k \in DOMAIN a \cup DOMAIN b |-> IF k \in DOMAIN b THEN b[k] ELSE a[k]]

\* truth value of an optional string: None and "" are falsy
TruthyStr(o) == ~IsNone(o) /\ o[1] # ""

\* truth value of an optional dict: None and {} are falsy
TruthyDict(o) == ~IsNone(o) /\ DOMAIN o[1] # {}

(***************************************************************************)
(* Outcomes of calls and the error codes of APIError                       *)
(***************************************************************************)
MEMORY_NOT_FOUND == "MEMORY_NOT_FOUND"

MEMORY_CREATE_FAILED == "MEMORY_CREATE_FAILED"

MEMORY_UPDATE_FAILED == "MEMORY_UPDATE_FAILED"

MEMORY_DELETE_FAILED == "MEMORY_DELETE_FAILED"

INTERNAL_ERROR == "INTERNAL_ERROR"

Returned(v) == [state |-> "returned", val |-> v]

Raised(exc, code, message) == [state |-> "raised", exc |-> exc, code |-> code, message |-> message]

APIError(code, message) == Raised("APIError", code, message)

\* exception messages: a fixed text, an f-string over the memory id, an
\* f-string over str(e) of the exception e that is being wrapped
Msg(text) == [text |-> text]

MsgId(text, memory_id) == [text |-> text, memory_id |-> memory_id]

MsgOf(text, e) == [text |-> text, e |-> e.message]

IsReturned(r) == r.state = "returned"

IsRaised(r) == r.state = "raised"

NoOutcome == [state |-> "none"]

(***************************************************************************)
(* Value universes of the model                                            *)
(***************************************************************************)
Ids == {1, 2}

\* metadata a caller passes / a record holds at the start
ArgMetas == {None, Some(EmptyDict), Some([a |-> 1]), Some([a |-> 9])}

StoreMetas == {None, Some(EmptyDict), Some([a |-> 1]), Some([b |-> 2])}

ArgContents == {None, Some(""), Some("y")}

\* a stored record: "content" may be missing, null, empty or a text
StoreRecords == [content : {None, Some(""), Some("x")}, metadata : StoreMetas] \cup [metadata : StoreMetas]

\* the payload of the secondary raw lookup of get_memory
Payloads == {[raises |-> TRUE, data |-> ""], [raises |-> FALSE, data |-> ""], [raises |-> FALSE, data |-> "z"]}

\* shapes of the store's raw update response: null, empty, a payload without
\* the id, a payload with the id
UpdateShapes == {"null", "empty", "payload", "full"}

UpdateResponse(shape, memory_id) ==
    CASE shape = "null" -> None
      [] shape = "empty" -> Some(EmptyDict)
      [] shape = "payload" -> Some([data |-> 0])
      [] OTHER -> Some([id |-> memory_id, data |-> 0])

(***************************************************************************)
(* The memory store (powermem.Memory), an external collaborator: it holds  *)
(* records by id, persists exactly what update is given, and any call may  *)
(* fail.                                                                   *)
(***************************************************************************)
StoreError == Raised("StoreError", "", Msg("store failure"))

\* Memory.get: the record, or None when the id is absent
StoreGet(st, memory_id, fault) ==
    IF fault THEN StoreError
    ELSE IF memory_id \in DOMAIN st THEN Returned(Some(st[memory_id]))
    ELSE Returned(None)

\* the records after Memory.update(memory_id, content, metadata)
StoreAfterUpdate(st, memory_id, content, metadata) ==
    [st EXCEPT ![memory_id] = [content |-> content, metadata |-> metadata]]

\* the outcomes Memory.update can have on the current records
StoreUpdateOutcomes(st, memory_id) ==
    {StoreError} \cup
    (IF memory_id \in DOMAIN st
     THEN {Returned(UpdateResponse(sh, memory_id)) : sh \in UpdateShapes}
     ELSE {})

\* the records after a Memory.delete that reported success
StoreAfterDelete(st, memory_id) == [i \in DOMAIN st \ {memory_id} |-> st[i]]

\* the records after Memory.delete_all, matched being the ids of the records
\* the identity filters match (all of them without a filter)
StoreAfterDeleteAll(st, matched) == [i \in DOMAIN st \ matched |-> st[i]]

\* the outcomes Memory.delete can have: True only when the record is there
StoreDeleteOutcomes(st, memory_id) ==
    {StoreError, Returned(FALSE)} \cup
    (IF memory_id \in DOMAIN st THEN {Returned(TRUE)} ELSE {})

(***************************************************************************)
(* MemoryService.get_memory                                                *)
(***************************************************************************)
\* g is the outcome of Memory.get, pl the outcome of the raw payload lookup
GetMemory(memory_id, g, pl) ==
    IF IsRaised(g) THEN APIError(INTERNAL_ERROR, MsgOf("Failed to get memory: {e}", g))
    ELSE IF IsNone(g.val) THEN APIError(MEMORY_NOT_FOUND, MsgId("Memory {memory_id} not found", memory_id))
    ELSE LET memory == g.val[1] IN
         IF ~TruthyStr(PyGet(memory, "content", None)) /\ ~pl.raises /\ pl.data # ""
         THEN Returned(PySet(memory, "content", Some(pl.data)))
         ELSE Returned(memory)

(***************************************************************************)
(* MemoryService.update_memory                                             *)
(***************************************************************************)
\* a blind overwrite: the metadata supplied replaces the existing one
MergeMetadata_Overwrite(existing, metadata) ==
    IF ~IsNone(metadata) THEN metadata ELSE PyGet(existing, "metadata", None)

\* a merge in which the existing value wins on a shared key
MergeMetadata_ExistingWins(existing, metadata) ==
    LET em == PyGet(existing, "metadata", None) IN
    IF ~IsNone(metadata) /\ TruthyDict(em) THEN Some(DictMerge(metadata[1], em[1]))
    ELSE IF TruthyDict(em) THEN em
    ELSE metadata

\* final_metadata of update_memory
MergeMetadata(existing, metadata) ==
    LET em == PyGet(existing, "metadata", None) IN
    IF ~IsNone(metadata) /\ TruthyDict(em) THEN Some(DictMerge(em[1], metadata[1]))
    ELSE IF TruthyDict(em) THEN em
    ELSE metadata

\* final_content of update_memory
FinalContent(existing, content) ==
    IF ~IsNone(content) THEN content ELSE PyGet(existing, "content", Some(""))

\* the try body up to the store's update: gm is the outcome of get_memory
UpdatePrepare(gm, content, metadata) ==
    IF IsRaised(gm) THEN gm
    ELSE IF IsNone(content) /\ IsNone(metadata)
    THEN Raised("ValueError", "", Msg("At least one of content or metadata must be provided"))
    ELSE Returned([final_content |-> FinalContent(gm.val, content),
                   final_metadata |-> MergeMetadata(gm.val, metadata)])

\* the try body from the store's update on: u is the outcome of Memory.update
UpdateFinish(u, memory_id) ==
    IF IsRaised(u) THEN u
    ELSE IF TruthyDict(u.val) /\ "id" \notin DOMAIN u.val[1]
    THEN Returned(Some(PySet(PySet(u.val[1], "id", memory_id), "memory_id", memory_id)))
    ELSE u

\* the except clauses of update_memory
UpdateExcept(r) ==
    IF IsRaised(r) /\ r.exc # "APIError"
    THEN APIError(MEMORY_UPDATE_FAILED, MsgOf("Failed to update memory: {e}", r))
    ELSE r

(***************************************************************************)
(* MemoryService.delete_memory                                             *)
(***************************************************************************)
\* the try body from the store's delete on: d is the outcome of Memory.delete
DeleteFinish(d, memory_id) ==
    IF IsRaised(d) THEN d
    ELSE IF ~d.val
    THEN APIError(MEMORY_DELETE_FAILED, MsgId("Failed to delete memory {memory_id}", memory_id))
    ELSE Returned(TRUE)

\* a delete_memory that lets an exception of the store through
DeleteExcept_Raw(r) == r

\* the except clauses of delete_memory
DeleteExcept(r) ==
    IF IsRaised(r) /\ r.exc # "APIError"
    THEN APIError(MEMORY_DELETE_FAILED, MsgOf("Failed to delete memory: {e}", r))
    ELSE r

(***************************************************************************)
(* Whole handlers, run without interleaving.  Each yields the outcome, the *)
(* records of the store afterwards and the store mutations it invoked.     *)
(***************************************************************************)
UpdateCall(memory_id, content, metadata, ok) ==
    [op |-> "update", memory_id |-> memory_id, content |-> content, metadata |-> metadata, ok |-> ok]

DeleteCall(memory_id, ok) == [op |-> "delete", memory_id |-> memory_id, ok |-> ok]

\* an update_memory that hands the record to the store before it checks its
\* arguments
UpdateMemory_WriteFirst(st, memory_id, content, metadata, fault, pl, u) ==
    LET gm == GetMemory(memory_id, StoreGet(st, memory_id, fault), pl)
        prep == UpdatePrepare(gm, content, metadata) IN
    IF IsRaised(gm)
    THEN [ret |-> UpdateExcept(gm), store |-> st, calls |-> <<>>]
    ELSE [ret |-> UpdateExcept(IF IsRaised(prep) THEN prep ELSE UpdateFinish(u, memory_id)),
          store |-> IF IsReturned(u)
                    THEN StoreAfterUpdate(st, memory_id, FinalContent(gm.val, content),
                                          MergeMetadata(gm.val, metadata))
                    ELSE st,
          calls |-> <<UpdateCall(memory_id, FinalContent(gm.val, content),
                                 MergeMetadata(gm.val, metadata), IsReturned(u))>>]

\* update_memory: fault and pl decide get_memory, u is the outcome of Memory.update
UpdateMemory(st, memory_id, content, metadata, fault, pl, u) ==
    LET gm == GetMemory(memory_id, StoreGet(st, memory_id, fault), pl)
        prep == UpdatePrepare(gm, content, metadata) IN
    IF IsRaised(prep)
    THEN [ret |-> UpdateExcept(prep), store |-> st, calls |-> <<>>]
    ELSE [ret |-> UpdateExcept(UpdateFinish(u, memory_id)),
          store |-> IF IsReturned(u)
                    THEN StoreAfterUpdate(st, memory_id, prep.val.final_content, prep.val.final_metadata)
                    ELSE st,
          calls |-> <<UpdateCall(memory_id, prep.val.final_content, prep.val.final_metadata,
                                 IsReturned(u))>>]

\* a delete_memory that does not look the record up first
DeleteMemory_NoLookup(st, memory_id, fault, pl, d) ==
    [ret |-> DeleteExcept(DeleteFinish(d, memory_id)),
     store |-> IF IsReturned(d) /\ d.val THEN StoreAfterDelete(st, memory_id) ELSE st,
     calls |-> <<DeleteCall(memory_id, IsReturned(d) /\ d.val)>>]

\* delete_memory: fault and pl decide get_memory, d is the outcome of Memory.delete
DeleteMemory(st, memory_id, fault, pl, d) ==
    LET gm == GetMemory(memory_id, StoreGet(st, memory_id, fault), pl) IN
    IF IsRaised(gm)
    THEN [ret |-> DeleteExcept(gm), store |-> st, calls |-> <<>>]
    ELSE [ret |-> DeleteExcept(DeleteFinish(d, memory_id)),
          store |-> IF IsReturned(d) /\ d.val THEN StoreAfterDelete(st, memory_id) ELSE st,
          calls |-> <<DeleteCall(memory_id, IsReturned(d) /\ d.val)>>]

(***************************************************************************)
(* The route delete_all_memories                                           *)
(***************************************************************************)
\* delete_all_memories: matched are the records the filters match, fault is
\* a failure of Memory.delete_all; the response carries the store's count
DeleteAllMemories(st, matched, fault) ==
    IF fault
    THEN [ret |-> APIError(INTERNAL_ERROR, MsgOf("Failed to delete all memories: {e}", StoreError)),
          store |-> st, calls |-> <<[op |-> "delete_all", matched |-> matched, ok |-> FALSE]>>]
    ELSE [ret |-> Returned([success |-> TRUE, deleted |-> Cardinality(matched)]),
          store |-> StoreAfterDeleteAll(st, matched),
          calls |-> <<[op |-> "delete_all", matched |-> matched, ok |-> TRUE]>>]

(***************************************************************************)
(* The store's add (Memory.add)                                            *)
(***************************************************************************)
AddCall(content, metadata, ok) == [op |-> "add", content |-> content, metadata |-> metadata, ok |-> ok]

\* shapes of the result of Memory.add for the n-th add of a call: no entry,
\* one entry, an entry without id, two entries, the top-level forms and mixes
AddShapes == {"none", "one", "noid", "two", "memory_id", "id", "noid+memory_id", "none+id",
              "memory_id+id", "bare"}

AddResult(shape, n) ==
    CASE shape = "none" -> [results |-> <<>>]
      [] shape = "one" -> [results |-> <<[id |-> Some(10 * n + 1)]>>]
      [] shape = "noid" -> [results |-> <<EmptyDict>>]
      [] shape = "two" -> [results |-> <<[id |-> Some(10 * n + 1)], [id |-> Some(10 * n + 4)]>>]
      [] shape = "memory_id" -> [memory_id |-> Some(10 * n + 2)]
      [] shape = "id" -> [id |-> Some(10 * n + 3)]
      [] shape = "noid+memory_id" -> [results |-> <<EmptyDict>>, memory_id |-> Some(10 * n + 2)]
      [] shape = "none+id" -> [results |-> <<>>, id |-> Some(10 * n + 3)]
      [] shape = "memory_id+id" -> [memory_id |-> Some(10 * n + 2), id |-> Some(10 * n + 3)]
      [] OTHER -> EmptyDict

\* the outcome of the n-th Memory.add: it raises or returns a result
AddOutcome(shape, n) == IF shape = "raise" THEN StoreError ELSE Returned(AddResult(shape, n))

\* the ids of the records a result of Memory.add names
AddedIds(result) ==
    LET entries == PyGet(result, "results", <<>>)
        named == {PyGet(entries[i], "id", None) : i \in 1..Len(entries)}
                 \cup {PyGet(result, "memory_id", None), PyGet(result, "id", None)} IN
    {e[1] : e \in named \ {None}}

\* the records after a Memory.add that returned result
StoreAfterAdd(st, result, content, metadata) ==
    [i \in DOMAIN st \cup AddedIds(result) |->
        IF i \in AddedIds(result) THEN [content |-> content, metadata |-> metadata] ELSE st[i]]

(***************************************************************************)
(* MemoryService.create_memory                                             *)
(***************************************************************************)
\* a value of any type: isinstance(x, dict) is its tag
DictValue(d) == [dict |-> TRUE, v |-> d]

NonDictValue(repr) == [dict |-> FALSE, v |-> [repr |-> repr]]

\* a get_field that takes the entry's value whenever the key is there
GetField_KeyOnly(result_item, result_key, param_value) ==
    IF result_key \in DOMAIN result_item THEN result_item[result_key] ELSE param_value

\* get_field(result_key, param_value) on result_item
GetField(result_item, result_key, param_value) ==
    IF result_key \in DOMAIN result_item
    THEN (IF ~IsNone(result_item[result_key]) THEN result_item[result_key] ELSE param_value)
    ELSE param_value

\* the metadata of the record built from result_item: always a dict
FallbackMetadata(result_item, metadata) ==
    LET result_metadata == PyGet(result_item, "metadata", None) IN
    IF IsNone(result_metadata) THEN (IF TruthyDict(metadata) THEN metadata[1] ELSE EmptyDict)
    ELSE IF result_metadata[1].dict THEN result_metadata[1].v
    ELSE EmptyDict

\* created_at and updated_at are copied only where present and not null
WithTimestamp(normalized_memory, result_item, key) ==
    IF key \in DOMAIN result_item /\ ~IsNone(result_item[key])
    THEN PySet(normalized_memory, key, result_item[key])
    ELSE normalized_memory

\* normalized_memory built from result_item when the re-fetch gave nothing
FallbackRecord(result_item, memory_id, content, user_id, agent_id, run_id, metadata) ==
    WithTimestamp(WithTimestamp(
        [id |-> memory_id,
         memory_id |-> memory_id,
         content |-> GetField(result_item, "memory", Some(content)),
         user_id |-> GetField(result_item, "user_id", user_id),
         agent_id |-> GetField(result_item, "agent_id", agent_id),
         run_id |-> GetField(result_item, "run_id", run_id),
         metadata |-> Some(FallbackMetadata(result_item, metadata))],
        result_item, "created_at"), result_item, "updated_at")

\* the outcome of Memory.get in the re-fetch of a created record
Refetch(st, memory_id, get) ==
    CASE get = "raise" -> StoreError
      [] get = "none" -> Returned(None)
      [] OTHER -> StoreGet(st, memory_id, FALSE)

\* one pass of the loop over all_results, for entry i: the records so far
\* with the record of entry i appended, unless the entry has no id
CreateStep(st, all_results, i, fetch, p, normalized_memories) ==
    LET result_item == all_results[i]
        memory_id == PyGet(result_item, "id", None) IN
    IF IsNone(memory_id) THEN normalized_memories
    ELSE LET full_memory == GetMemory(memory_id[1], Refetch(st, memory_id[1], fetch[i].get), fetch[i].pl) IN
         IF IsReturned(full_memory) /\ DOMAIN full_memory.val # {}
         THEN Append(normalized_memories, full_memory.val)
         ELSE Append(normalized_memories,
                     FallbackRecord(result_item, memory_id, p.content, p.user_id, p.agent_id,
                                    p.run_id, p.metadata))

RECURSIVE CreateLoop(_, _, _, _, _, _)
CreateLoop(st, all_results, i, fetch, p, normalized_memories) ==
    IF i > Len(all_results) THEN normalized_memories
    ELSE CreateLoop(st, all_results, i + 1, fetch, p,
                    CreateStep(st, all_results, i, fetch, p, normalized_memories))

\* a create_memory that reports an add without result entries as a failure
CreateMemory_RaiseOnEmpty(st, p, a, fetch) ==
    IF IsRaised(a)
    THEN [ret |-> APIError(MEMORY_CREATE_FAILED, MsgOf("Failed to create memory: {e}", a)),
          store |-> st, calls |-> <<AddCall(Some(p.content), p.metadata, FALSE)>>]
    ELSE LET all_results == PyGet(a.val, "results", <<>>)
             after == StoreAfterAdd(st, a.val, Some(p.content), p.metadata) IN
         [ret |-> IF Len(all_results) = 0
                  THEN APIError(MEMORY_CREATE_FAILED, Msg("Failed to create memory: no results"))
                  ELSE Returned(CreateLoop(after, all_results, 1, fetch, p, <<>>)),
          store |-> after, calls |-> <<AddCall(Some(p.content), p.metadata, TRUE)>>]

\* create_memory with parameters p: a is the outcome of Memory.add, fetch[i]
\* the store's behaviour in the re-fetch of entry i
CreateMemory(st, p, a, fetch) ==
    IF IsRaised(a)
    THEN [ret |-> APIError(MEMORY_CREATE_FAILED, MsgOf("Failed to create memory: {e}", a)),
          store |-> st, calls |-> <<AddCall(Some(p.content), p.metadata, FALSE)>>]
    ELSE LET all_results == PyGet(a.val, "results", <<>>)
             after == StoreAfterAdd(st, a.val, Some(p.content), p.metadata) IN
         [ret |-> IF Len(all_results) = 0 THEN Returned(<<>>)
                  ELSE Returned(CreateLoop(after, all_results, 1, fetch, p, <<>>)),
          store |-> after, calls |-> <<AddCall(Some(p.content), p.metadata, TRUE)>>]

(***************************************************************************)
(* MemoryService.list_memories                                             *)
(***************************************************************************)
\* a loop that stops at the first entry that is not a dict
RECURSIVE ListFilter_StopAtBad(_, _, _)
ListFilter_StopAtBad(memories_list, i, filtered_memories) ==
    IF i > Len(memories_list) \/ ~memories_list[i].dict THEN filtered_memories
    ELSE ListFilter_StopAtBad(memories_list, i + 1, Append(filtered_memories, memories_list[i]))

\* the loop over memories_list from entry i on
RECURSIVE ListFilter(_, _, _)
ListFilter(memories_list, i, filtered_memories) ==
    IF i > Len(memories_list) THEN filtered_memories
    ELSE ListFilter(memories_list, i + 1,
                    IF memories_list[i].dict THEN Append(filtered_memories, memories_list[i])
                    ELSE filtered_memories)

\* list_memories: g is the outcome of Memory.get_all
ListMemories(g) ==
    IF IsRaised(g) THEN APIError(INTERNAL_ERROR, MsgOf("Failed to list memories: {e}", g))
    ELSE Returned(ListFilter(PyGet(g.val, "results", <<>>), 1, <<>>))

(***************************************************************************)
(* MemoryService.bulk_delete_memories                                      *)
(***************************************************************************)
\* the state of a batch loop: the records, the two result lists, the store
\* mutations invoked and the exception that left the loop, if any
BatchStart(st) == [store |-> st, done |-> <<>>, failed |-> <<>>, calls |-> <<>>, raised |-> NoOutcome]

\* a loop body that counts a repeated id as deleted again
BulkDeleteStep_RepeatSucceeds(i, memory_ids, env, acc) ==
    LET r == DeleteMemory(acc.store, memory_ids[i], env[i].fault, env[i].pl, env[i].d)
        step == [acc EXCEPT !.store = r.store, !.calls = acc.calls \o r.calls] IN
    IF IsReturned(r.ret) \/ \E k \in 1..Len(acc.done) : acc.done[k] = memory_ids[i]
    THEN [step EXCEPT !.done = Append(acc.done, memory_ids[i])]
    ELSE IF r.ret.exc = "APIError"
    THEN [step EXCEPT !.failed = Append(acc.failed, [memory_id |-> memory_ids[i],
                                                     error |-> r.ret.message])]
    ELSE [step EXCEPT !.raised = r.ret]

\* one pass of the loop body, for item i; env[i] holds the store's behaviour
BulkDeleteStep(i, memory_ids, env, acc) ==
    LET r == DeleteMemory(acc.store, memory_ids[i], env[i].fault, env[i].pl, env[i].d)
        step == [acc EXCEPT !.store = r.store, !.calls = acc.calls \o r.calls] IN
    IF IsReturned(r.ret) THEN [step EXCEPT !.done = Append(acc.done, memory_ids[i])]
    ELSE IF r.ret.exc = "APIError"
    THEN [step EXCEPT !.failed = Append(acc.failed, [memory_id |-> memory_ids[i],
                                                     error |-> r.ret.message])]
    ELSE [step EXCEPT !.raised = r.ret]

\* the loop from item i on; an exception that is not caught leaves it
RECURSIVE BulkDeleteLoop(_, _, _, _)
BulkDeleteLoop(i, memory_ids, env, acc) ==
    IF i > Len(memory_ids) \/ IsRaised(acc.raised) THEN acc
    ELSE BulkDeleteLoop(i + 1, memory_ids, env, BulkDeleteStep(i, memory_ids, env, acc))

BulkDeleteMemories(st, memory_ids, env) ==
    LET acc == BulkDeleteLoop(1, memory_ids, env, BatchStart(st)) IN
    [ret |-> IF IsRaised(acc.raised) THEN acc.raised
             ELSE Returned([deleted |-> acc.done, failed |-> acc.failed, total |-> Len(memory_ids),
                            deleted_count |-> Len(acc.done), failed_count |-> Len(acc.failed)]),
     store |-> acc.store, calls |-> acc.calls]

(***************************************************************************)
(* MemoryService.batch_create_memories                                     *)
(***************************************************************************)
\* memory_id extracted from the result of Memory.add
ExtractMemoryId(result) ==
    IF "results" \in DOMAIN result /\ Len(result.results) > 0
    THEN PyGet(result.results[1], "id", None)
    ELSE IF "memory_id" \in DOMAIN result THEN result.memory_id
    ELSE IF "id" \in DOMAIN result THEN result.id
    ELSE None

\* the try body for one item: a is the outcome of Memory.add
CreateItem(idx, memory_item, a) ==
    LET content == PyGet(memory_item, "content", None) IN
    IF ~TruthyStr(content) THEN Raised("ValueError", "", Msg("Memory content is required"))
    ELSE IF IsRaised(a) THEN a
    ELSE IF IsNone(ExtractMemoryId(a.val))
    THEN Raised("ValueError", "", Msg("Failed to extract memory_id from result"))
    ELSE Returned([index |-> idx, memory_id |-> ExtractMemoryId(a.val)[1], content |-> content[1]])

\* one pass of the loop body, for item i (index i - 1)
BatchCreateStep(i, memories, env, acc) ==
    LET item == memories[i]
        content == PyGet(item, "content", None)
        a == AddOutcome(env[i].add, i)
        r == CreateItem(i - 1, item, a)
        step == IF TruthyStr(content)
                THEN [acc EXCEPT !.store = IF IsReturned(a)
                                           THEN StoreAfterAdd(acc.store, a.val, content,
                                                              PyGet(item, "metadata", None))
                                           ELSE acc.store,
                                 !.calls = Append(acc.calls, AddCall(content, PyGet(item, "metadata", None),
                                                                     IsReturned(a)))]
                ELSE acc IN
    IF IsReturned(r) THEN [step EXCEPT !.done = Append(acc.done, r.val)]
    ELSE [step EXCEPT !.failed = Append(acc.failed, [index |-> i - 1,
                                                     content |-> PyGet(item, "content", Some("N/A")),
                                                     error |-> r.message])]

RECURSIVE BatchCreateLoop(_, _, _, _)
BatchCreateLoop(i, memories, env, acc) ==
    IF i > Len(memories) THEN acc
    ELSE BatchCreateLoop(i + 1, memories, env, BatchCreateStep(i, memories, env, acc))

BatchCreateMemories(st, memories, env) ==
    LET acc == BatchCreateLoop(1, memories, env, BatchStart(st)) IN
    [ret |-> Returned([created |-> acc.done, failed |-> acc.failed, total |-> Len(memories),
                       created_count |-> Len(acc.done), failed_count |-> Len(acc.failed)]),
     store |-> acc.store, calls |-> acc.calls]

(***************************************************************************)
(* MemoryService.batch_update_memories                                     *)
(***************************************************************************)
\* an item whose metadata replaces the existing one
BatchMergeMetadata_Replace(existing, metadata) == metadata

\* final_metadata of an item of batch_update_memories
BatchMergeMetadata(existing, metadata) ==
    LET em == PyGet(existing, "metadata", None) IN
    IF ~IsNone(metadata) /\ TruthyDict(em) THEN Some(DictMerge(em[1], metadata[1]))
    ELSE IF TruthyDict(em) THEN em
    ELSE metadata

\* final_content of an item of batch_update_memories
BatchFinalContent(existing, content) ==
    IF ~IsNone(content) THEN content ELSE PyGet(existing, "content", Some(""))

\* the try body for one item up to the store's update
UpdateItemPrepare(st, update_item, e) ==
    LET memory_id == PyGet(update_item, "memory_id", None)
        content == PyGet(update_item, "content", None)
        metadata == PyGet(update_item, "metadata", None) IN
    IF IsNone(memory_id) THEN Raised("ValueError", "", Msg("memory_id is required for each update"))
    ELSE IF IsNone(content) /\ IsNone(metadata)
    THEN Raised("ValueError", "", Msg("At least one of content or metadata must be provided"))
    ELSE LET gm == GetMemory(memory_id[1], StoreGet(st, memory_id[1], e.fault), e.pl) IN
         IF IsRaised(gm) THEN gm
         ELSE Returned([final_content |-> BatchFinalContent(gm.val, content),
                        final_metadata |-> BatchMergeMetadata(gm.val, metadata)])

\* an item whose updated entry is appended before the store's update is called
BatchUpdateStep_AppendEarly(i, updates, env, acc) ==
    LET item == updates[i]
        memory_id == PyGet(item, "memory_id", None)
        prep == UpdateItemPrepare(acc.store, item, env[i])
        early == IF IsRaised(prep) THEN acc
                 ELSE [acc EXCEPT !.done = Append(acc.done, [index |-> i - 1, memory_id |-> memory_id[1]])]
        r == IF IsRaised(prep) THEN prep ELSE env[i].u IN
    IF IsReturned(r) THEN early
    ELSE [early EXCEPT !.failed = Append(acc.failed, [index |-> i - 1, memory_id |-> memory_id,
                                                      error |-> r.message])]

\* one pass of the loop body, for item i (index i - 1)
BatchUpdateStep(i, updates, env, acc) ==
    LET item == updates[i]
        memory_id == PyGet(item, "memory_id", None)
        prep == UpdateItemPrepare(acc.store, item, env[i])
        r == IF IsRaised(prep) THEN prep ELSE env[i].u
        step == IF IsRaised(prep) THEN acc
                ELSE [acc EXCEPT !.store = IF IsReturned(env[i].u)
                                           THEN StoreAfterUpdate(acc.store, memory_id[1],
                                                                 prep.val.final_content,
                                                                 prep.val.final_metadata)
                                           ELSE acc.store,
                                 !.calls = Append(acc.calls,
                                                  UpdateCall(memory_id[1], prep.val.final_content,
                                                             prep.val.final_metadata,
                                                             IsReturned(env[i].u)))] IN
    IF IsReturned(r)
    THEN [step EXCEPT !.done = Append(acc.done, [index |-> i - 1, memory_id |-> memory_id[1]])]
    ELSE [step EXCEPT !.failed = Append(acc.failed, [index |-> i - 1, memory_id |-> memory_id,
                                                     error |-> r.message])]

RECURSIVE BatchUpdateLoop(_, _, _, _)
BatchUpdateLoop(i, updates, env, acc) ==
    IF i > Len(updates) THEN acc
    ELSE BatchUpdateLoop(i + 1, updates, env, BatchUpdateStep(i, updates, env, acc))

BatchUpdateMemories(st, updates, env) ==
    LET acc == BatchUpdateLoop(1, updates, env, BatchStart(st)) IN
    [ret |-> Returned([updated |-> acc.done, failed |-> acc.failed, total |-> Len(updates),
                       updated_count |-> Len(acc.done), failed_count |-> Len(acc.failed)]),
     store |-> acc.store, calls |-> acc.calls]

(***************************************************************************)
(* Dates.  A datetime is a day (its proleptic ordinal) that is either      *)
(* timezone-aware or naive; a text is parsed by table.                     *)
(***************************************************************************)
Datetime(aware, day) == [aware |-> aware, day |-> day]

\* datetime.min
DatetimeMin == Datetime(FALSE, 1)

\* the date texts dateutil parses, with the day and the date key of each
DateTable ==
    {[text |-> "2024-03-01T00:00:00+00:00", aware |-> TRUE, day |-> 738946, key |-> "2024-03-01"],
     [text |-> "2024-02-27T00:00:00+00:00", aware |-> TRUE, day |-> 738943, key |-> "2024-02-27"],
     [text |-> "2024-02-10T00:00:00+00:00", aware |-> TRUE, day |-> 738926, key |-> "2024-02-10"],
     [text |-> "2024-01-01T00:00:00+00:00", aware |-> TRUE, day |-> 738886, key |-> "2024-01-01"],
     [text |-> "2024-02-27T00:00:00", aware |-> FALSE, day |-> 738943, key |-> "2024-02-27"]}

Parseable(text) == \E e \in DateTable : e.text = text

\* _parse_datetime: datetime.min for a missing, empty or unparseable text,
\* and for every text when the import of dateutil fails (dateutil is FALSE)
ParseDatetime(date_str, dateutil) ==
    IF ~TruthyStr(date_str) THEN DatetimeMin
    ELSE IF dateutil /\ Parseable(date_str[1])
    THEN LET e == CHOOSE e \in DateTable : e.text = date_str[1] IN Datetime(e.aware, e.day)
    ELSE DatetimeMin

\* strftime("%Y-%m-%d"); the C library does not pad the year of datetime.min
DateKey(dt) ==
    IF \E e \in DateTable : e.day = dt.day
    THEN (CHOOSE e \in DateTable : e.day = dt.day).key
    ELSE "1-01-01"

TypeError(text) == Raised("TypeError", "", Msg(text))

\* a >= b on datetimes: naive and aware ones do not compare
DatetimeGe(a, b) ==
    IF a.aware # b.aware THEN TypeError("can't compare offset-naive and offset-aware datetimes")
    ELSE Returned(a.day >= b.day)

\* (now - date_obj).days, now being aware
AgeDays(now, date_obj) ==
    IF now.aware # date_obj.aware THEN TypeError("can't subtract offset-naive and offset-aware datetimes")
    ELSE Returned(now.day - date_obj.day)

\* the comprehension [m for m in memories if _parse_datetime(m.get("created_at")) >= cutoff_date]
RECURSIVE FilterByCutoff(_, _, _, _, _)
FilterByCutoff(memories, cutoff_date, dateutil, i, kept) ==
    IF i > Len(memories) THEN Returned(kept)
    ELSE LET c == DatetimeGe(ParseDatetime(PyGet(memories[i], "created_at", None), dateutil),
                             cutoff_date) IN
         IF IsRaised(c) THEN c
         ELSE FilterByCutoff(memories, cutoff_date, dateutil, i + 1,
                             IF c.val THEN Append(kept, memories[i]) ELSE kept)

(***************************************************************************)
(* MemoryService._calculate_stats_from_memories                            *)
(***************************************************************************)
\* texts whose length matters are sequences of characters
TruthyText(o) == ~IsNone(o) /\ Len(o[1]) > 0

\* a or b on optional texts, on optional strings and on optional ids
OrText(a, b) == IF TruthyText(a) THEN a ELSE b

OrStr(a, b) == IF TruthyStr(a) THEN a ELSE b

OrId(a, b) == IF ~IsNone(a) /\ a[1] # 0 THEN a ELSE b

MaxPreview == 100

MaxTop == 10

AgeBuckets == {"< 1 day", "1-7 days", "7-30 days", "> 30 days"}

AgeBucket(age) ==
    IF age < 1 THEN "< 1 day"
    ELSE IF age < 7 THEN "1-7 days"
    ELSE IF age < 30 THEN "7-30 days"
    ELSE "> 30 days"

\* d[k] += 1 on a defaultdict(int)
DictInc(d, k) == [x \in DOMAIN d \cup {k} |-> IF x = k THEN (IF k \in DOMAIN d THEN d[k] + 1 ELSE 1) ELSE d[x]]

Take(seq, n) == SubSeq(seq, 1, IF Len(seq) < n THEN Len(seq) ELSE n)

\* importance in tenths: m.get("importance") or 0.5
ImportanceOrDefault(m) ==
    LET importance == PyGet(m, "importance", None) IN
    IF IsNone(importance) \/ importance[1] = 0 THEN 5 ELSE importance[1]

\* list.sort(key=access_count, reverse=True): stable, descending
RECURSIVE SortByAccess(_)
SortByAccess(entries) ==
    IF Len(entries) <= 1 THEN entries
    ELSE LET rest == SortByAccess(Tail(entries))
             x == Head(entries)
             before == SelectSeq(rest, LAMBDA y : y.access_count > x.access_count)
             after == SelectSeq(rest, LAMBDA y : y.access_count <= x.access_count) IN
         before \o <<x>> \o after

StatsStart ==
    [by_type |-> EmptyDict, total_importance |-> 0, access_counts |-> <<>>,
     growth_by_date |-> EmptyDict, age_distribution |-> [b \in AgeBuckets |-> 0], raised |-> NoOutcome]

\* one pass of the loop body, for record m
StatsStep(acc, m, now, dateutil) ==
    LET mem_type == OrStr(OrStr(PyGet(m, "type", None), PyGet(m, "memory_type", None)),
                          Some("unknown"))[1]
        access_count == PyGet(m, "access_count", Some(0))
        created_at == PyGet(m, "created_at", None)
        date_obj == ParseDatetime(created_at, dateutil)
        age == AgeDays(now, date_obj)
        counted == [acc EXCEPT !.by_type = DictInc(acc.by_type, mem_type),
                               !.total_importance = acc.total_importance + ImportanceOrDefault(m)] IN
    IF IsNone(access_count)
    THEN [counted EXCEPT !.raised = TypeError("'>' not supported between instances of 'NoneType' and 'int'")]
    ELSE LET accessed ==
                 IF access_count[1] > 0
                 THEN [counted EXCEPT !.access_counts = Append(acc.access_counts,
                          [id |-> OrId(PyGet(m, "id", None), PyGet(m, "memory_id", None)),
                           content |-> Take(OrText(OrText(PyGet(m, "memory", None),
                                                          PyGet(m, "content", None)),
                                                   Some(<<>>))[1], MaxPreview),
                           access_count |-> access_count[1]])]
                 ELSE counted IN
         IF ~TruthyStr(created_at) THEN accessed
         ELSE IF IsRaised(age) THEN [accessed EXCEPT !.raised = age]
         ELSE [accessed EXCEPT !.growth_by_date = DictInc(acc.growth_by_date, DateKey(date_obj)),
                               !.age_distribution[AgeBucket(age.val)] = @ + 1]

RECURSIVE StatsLoop(_, _, _, _, _)
StatsLoop(memories, i, now, dateutil, acc) ==
    IF i > Len(memories) \/ IsRaised(acc.raised) THEN acc
    ELSE StatsLoop(memories, i + 1, now, dateutil, StatsStep(acc, memories[i], now, dateutil))

\* avg_importance is the quotient num / den of tenths
EmptyStats ==
    [total_memories |-> 0, by_type |-> EmptyDict, avg_importance |-> [num |-> 0, den |-> 1],
     top_accessed |-> <<>>, growth_trend |-> EmptyDict, age_distribution |-> [b \in AgeBuckets |-> 0]]

CalculateStatsFromMemories(memories, now, dateutil) ==
    IF Len(memories) = 0 THEN Returned(EmptyStats)
    ELSE LET acc == StatsLoop(memories, 1, now, dateutil, StatsStart) IN
         IF IsRaised(acc.raised) THEN acc.raised
         ELSE Returned([total_memories |-> Len(memories),
                        by_type |-> acc.by_type,
                        avg_importance |-> [num |-> acc.total_importance, den |-> 10 * Len(memories)],
                        top_accessed |-> Take(SortByAccess(acc.access_counts), MaxTop),
                        growth_trend |-> acc.growth_by_date,
                        age_distribution |-> acc.age_distribution])

(***************************************************************************)
(* MemoryService.get_statistics                                            *)
(***************************************************************************)
\* native is the outcome of Memory.get_statistics, g that of Memory.get_all
GetStatistics(native, cutoff_date, g, now, dateutil) ==
    IF IsRaised(native) THEN native
    ELSE IF IsNone(cutoff_date) THEN native
    ELSE IF IsRaised(g) THEN g
    ELSE LET filtered_memories == FilterByCutoff(PyGet(g.val, "results", <<>>), cutoff_date[1],
                                                   dateutil, 1, <<>>) IN
         IF IsRaised(filtered_memories) THEN filtered_memories
         ELSE CalculateStatsFromMemories(filtered_memories.val, now, dateutil)

(***************************************************************************)
(* MemoryService.analyze_memory_quality                                    *)
(***************************************************************************)
\* the characters str.strip() removes, those for which str.isspace() holds;
\* a character is its code point: U+0009..U+000D, U+001C..U+0020, U+0085,
\* U+00A0, U+1680, U+2000..U+200A, U+2028, U+2029, U+202F, U+205F, U+3000
Whitespace ==
    (9..13) \cup (28..32) \cup {133, 160, 5760} \cup (8192..8202) \cup {8232, 8233, 8239, 8287, 12288}

\* str.strip() on a sequence of characters
RECURSIVE LStrip(_)
LStrip(text) == IF Len(text) > 0 /\ Head(text) \in Whitespace THEN LStrip(Tail(text)) ELSE text

RECURSIVE RStrip(_)
RStrip(text) ==
    IF Len(text) > 0 /\ text[Len(text)] \in Whitespace
    THEN RStrip(SubSeq(text, 1, Len(text) - 1)) ELSE text

Strip(text) == RStrip(LStrip(text))

MinContentLen == 5

LowImportanceTenths == 3

\* not metadata or (isinstance(metadata, dict) and len(metadata) == 0)
MissingMetadata(memory) == ~TruthyDict(PyGet(memory, "metadata", None))

\* a content that is the first of the three fields that is not null
ResolvedContent_FirstNonNull(memory) ==
    LET first == PyGet(memory, "memory", None)
        second == PyGet(memory, "content", None)
        third == PyGet(memory, "data", None) IN
    IF ~IsNone(first) THEN first[1]
    ELSE IF ~IsNone(second) THEN second[1]
    ELSE IF ~IsNone(third) THEN third[1]
    ELSE <<>>

\* memory.get("memory") or memory.get("content") or memory.get("data") or ""
ResolvedContent(memory) ==
    OrText(OrText(OrText(PyGet(memory, "memory", None), PyGet(memory, "content", None)),
                  PyGet(memory, "data", None)),
           Some(<<>>))[1]

EmptyContent(memory) == Len(Strip(ResolvedContent(memory))) < MinContentLen

\* importance is not None and float(importance) < 0.3, importance in tenths
LowImportance(memory) ==
    LET importance == PyGet(memory, "importance", None) IN
    ~IsNone(importance) /\ importance[1] < LowImportanceTenths

\* memory.get("id") or memory.get("memory_id")
QualityId(memory) == OrId(PyGet(memory, "id", None), PyGet(memory, "memory_id", None))

QualityStart ==
    [quality_issues |-> [missing_metadata |-> 0, empty_content |-> 0, low_importance |-> 0],
     low_quality_memories |-> {}]

\* one pass of the loop body, for record memory
QualityStep(acc, memory) ==
    LET a == IF MissingMetadata(memory)
             THEN [acc EXCEPT !.quality_issues.missing_metadata = @ + 1,
                              !.low_quality_memories = @ \cup {QualityId(memory)}]
             ELSE acc
        b == IF EmptyContent(memory)
             THEN [a EXCEPT !.quality_issues.empty_content = @ + 1,
                            !.low_quality_memories = @ \cup {QualityId(memory)}]
             ELSE a IN
    IF LowImportance(memory)
    THEN [b EXCEPT !.quality_issues.low_importance = @ + 1,
                   !.low_quality_memories = @ \cup {QualityId(memory)}]
    ELSE b

RECURSIVE QualityLoop(_, _, _)
QualityLoop(memories_list, i, acc) ==
    IF i > Len(memories_list) THEN acc
    ELSE QualityLoop(memories_list, i + 1, QualityStep(acc, memories_list[i]))

\* the number of bits of the integer i
RECURSIVE BitLength(_)
BitLength(i) == IF i = 0 THEN 0 ELSE 1 + BitLength(i \div 2)

\* the division num / den in floats, bit by bit after sig significant bits
\* of which the last is last; rem is the remainder.  The result is the sign
\* of the float minus the exact quotient: the float is the nearest one with
\* a significand of 53 bits, ties to the even significand.
RECURSIVE FloatError(_, _, _, _)
FloatError(rem, den, sig, last) ==
    IF rem = 0 THEN 0
    ELSE IF sig = 53
    THEN IF 2 * rem > den \/ (2 * rem = den /\ last = 1) THEN 1 ELSE -1
    ELSE LET bit == IF 2 * rem >= den THEN 1 ELSE 0 IN
         FloatError(2 * rem - bit * den, den,
                    IF sig > 0 \/ bit = 1 THEN sig + 1 ELSE sig,
                    IF sig > 0 \/ bit = 1 THEN bit ELSE last)

\* round(num / den, 4) in ten-thousandths: the float num / den is rounded,
\* so an exact quotient half way between two results goes the way the float
\* lies, and to the even one only when the float is exact
Round4(num, den) ==
    LET q == (num * 10000) \div den
        r == (num * 10000) % den
        e == FloatError(num % den, den, BitLength(num \div den), (num \div den) % 2) IN
    IF 2 * r > den \/ (2 * r = den /\ (e > 0 \/ (e = 0 /\ q % 2 = 1))) THEN q + 1 ELSE q

\* a report that counts one low quality memory per defect found
QualityReport_PerDefect(acc, total_memories) ==
    LET n == acc.quality_issues.missing_metadata + acc.quality_issues.empty_content
             + acc.quality_issues.low_importance IN
    [total_memories |-> total_memories,
     low_quality_count |-> n,
     low_quality_ratio |-> Round4(n, total_memories),
     quality_criteria |-> acc.quality_issues]

\* the report over a non-empty list; low_quality_ratio is in ten-thousandths
QualityReport(acc, total_memories) ==
    [total_memories |-> total_memories,
     low_quality_count |-> Cardinality(acc.low_quality_memories),
     low_quality_ratio |-> Round4(Cardinality(acc.low_quality_memories), total_memories),
     quality_criteria |-> acc.quality_issues]

\* a report for no record that lists the three criteria
EmptyQualityReport_WithCriteria ==
    [total_memories |-> 0, low_quality_count |-> 0, low_quality_ratio |-> 0,
     quality_criteria |-> [missing_metadata |-> 0, empty_content |-> 0, low_importance |-> 0]]

\* the report when no record is left
EmptyQualityReport ==
    [total_memories |-> 0, low_quality_count |-> 0, low_quality_ratio |-> 0,
     quality_criteria |-> EmptyDict]

\* the except clause of analyze_memory_quality
AnalyzeExcept(r) ==
    IF IsRaised(r) THEN APIError(INTERNAL_ERROR, MsgOf("Failed to analyze memory quality: {e}", r)) ELSE r

\* analyze_memory_quality: g is the outcome of Memory.get_all
AnalyzeMemoryQuality(cutoff_date, g, dateutil) ==
    AnalyzeExcept(
        IF IsRaised(g) THEN g
        ELSE LET scanned == PyGet(g.val, "results", <<>>)
                 memories_list == IF IsNone(cutoff_date) THEN Returned(scanned)
                                  ELSE FilterByCutoff(scanned, cutoff_date[1], dateutil, 1, <<>>) IN
             IF IsRaised(memories_list) THEN memories_list
             ELSE IF Len(memories_list.val) = 0 THEN Returned(EmptyQualityReport)
             ELSE Returned(QualityReport(QualityLoop(memories_list.val, 1, QualityStart),
                                         Len(memories_list.val))))

(***************************************************************************)
(* Concurrent callers: each caller runs one update_memory or one           *)
(* delete_memory against the shared store.  A step of a caller is one call *)
(* of the store together with the local computation that follows it.       *)
(***************************************************************************)
Callers == {"c1", "c2"}

Stores(recs) == UNION {[D -> recs] : D \in SUBSET Ids}

ConcRecords == [content : {Some("x")}, metadata : StoreMetas]

NoArgs == [op |-> "none"]

NoPending == [existing |-> EmptyDict, final_content |-> None, final_metadata |-> None]

GetCall(memory_id) == [op |-> "get", memory_id |-> memory_id]

\* a store call as logged by the concurrent callers
By(p, c) == [by |-> p, call |-> c]

NoCall == [op |-> "none"]

Init ==
    /\ store \in Stores(ConcRecords)
    /\ pc = [p \in Callers |-> "idle"]
    /\ args = [p \in Callers |-> NoArgs]
    /\ pending = [p \in Callers |-> NoPending]
    /\ ret = [p \in Callers |-> NoOutcome]
    /\ trace = <<>>
    /\ call = NoCall
    /\ out = NoOutcome

\* update_memory from its entry to just before the store's update
UpdateRead(p) ==
    /\ pc[p] = "idle"
    /\ \E memory_id \in Ids, content \in {None, Some("y")}, metadata \in ArgMetas,
          fault \in BOOLEAN, pl \in Payloads :
          LET gm == GetMemory(memory_id, StoreGet(store, memory_id, fault), pl)
              prep == UpdateExcept(UpdatePrepare(gm, content, metadata)) IN
          /\ args' = [args EXCEPT ![p] = [op |-> "update_memory", memory_id |-> memory_id,
                                           content |-> content, metadata |-> metadata]]
          /\ trace' = Append(trace, By(p, GetCall(memory_id)))
          /\ IF IsRaised(prep)
             THEN /\ pc' = [pc EXCEPT ![p] = "done"]
                  /\ ret' = [ret EXCEPT ![p] = prep]
                  /\ UNCHANGED pending
             ELSE /\ pc' = [pc EXCEPT ![p] = "update"]
                  /\ pending' = [pending EXCEPT ![p] =
                                    [existing |-> gm.val,
                                     final_content |-> prep.val.final_content,
                                     final_metadata |-> prep.val.final_metadata]]
                  /\ UNCHANGED ret
    /\ UNCHANGED <<store, call, out>>

\* a write that merges into the record as it is at the time of the write
UpdateWrite_Atomic(p) ==
    /\ pc[p] = "update"
    /\ \E u \in StoreUpdateOutcomes(store, args[p].memory_id) :
          LET merged == MergeMetadata(IF IsReturned(u) THEN store[args[p].memory_id] ELSE EmptyDict,
                                      args[p].metadata) IN
          /\ ret' = [ret EXCEPT ![p] = UpdateExcept(UpdateFinish(u, args[p].memory_id))]
          /\ store' = IF IsReturned(u)
                      THEN StoreAfterUpdate(store, args[p].memory_id, pending[p].final_content, merged)
                      ELSE store
          /\ trace' = Append(trace, By(p, UpdateCall(args[p].memory_id, pending[p].final_content,
                                                     merged, IsReturned(u))))
    /\ pc' = [pc EXCEPT ![p] = "done"]
    /\ UNCHANGED <<args, pending, call, out>>

\* update_memory from the store's update to its return
UpdateWrite(p) ==
    /\ pc[p] = "update"
    /\ \E u \in StoreUpdateOutcomes(store, args[p].memory_id) :
          /\ ret' = [ret EXCEPT ![p] = UpdateExcept(UpdateFinish(u, args[p].memory_id))]
          /\ store' = IF IsReturned(u)
                      THEN StoreAfterUpdate(store, args[p].memory_id,
                                            pending[p].final_content, pending[p].final_metadata)
                      ELSE store
          /\ trace' = Append(trace, By(p, UpdateCall(args[p].memory_id, pending[p].final_content,
                                                     pending[p].final_metadata, IsReturned(u))))
    /\ pc' = [pc EXCEPT ![p] = "done"]
    /\ UNCHANGED <<args, pending, call, out>>

\* delete_memory from its entry to just before the store's delete
DeleteRead(p) ==
    /\ pc[p] = "idle"
    /\ \E memory_id \in Ids, fault \in BOOLEAN, pl \in Payloads :
          LET gm == DeleteExcept(GetMemory(memory_id, StoreGet(store, memory_id, fault), pl)) IN
          /\ args' = [args EXCEPT ![p] = [op |-> "delete_memory", memory_id |-> memory_id]]
          /\ trace' = Append(trace, By(p, GetCall(memory_id)))
          /\ IF IsRaised(gm)
             THEN /\ pc' = [pc EXCEPT ![p] = "done"]
                  /\ ret' = [ret EXCEPT ![p] = gm]
             ELSE /\ pc' = [pc EXCEPT ![p] = "delete"]
                  /\ UNCHANGED ret
    /\ UNCHANGED <<store, pending, call, out>>

\* delete_memory from the store's delete to its return
DeleteWrite(p) ==
    /\ pc[p] = "delete"
    /\ \E d \in StoreDeleteOutcomes(store, args[p].memory_id) :
          /\ ret' = [ret EXCEPT ![p] = DeleteExcept(DeleteFinish(d, args[p].memory_id))]
          /\ store' = IF IsReturned(d) /\ d.val
                      THEN StoreAfterDelete(store, args[p].memory_id)
                      ELSE store
          /\ trace' = Append(trace, By(p, DeleteCall(args[p].memory_id, IsReturned(d) /\ d.val)))
    /\ pc' = [pc EXCEPT ![p] = "done"]
    /\ UNCHANGED <<args, pending, call, out>>

\* delete_all_memories, called once by a client of the system route, here
\* without a filter: every record matches
DeleteAll ==
    /\ call = NoCall
    /\ \E matched \in {DOMAIN store}, fault \in BOOLEAN :
          LET r == DeleteAllMemories(store, matched, fault) IN
          /\ call' = [op |-> "delete_all_memories", matched |-> matched, before |-> store]
          /\ out' = r.ret
          /\ store' = r.store
          /\ trace' = Append(trace, By("system", r.calls[1]))
    /\ UNCHANGED <<pc, args, pending, ret>>

Next ==
    \/ DeleteAll
    \/ \E p \in Callers : UpdateRead(p)
    \/ \E p \in Callers : UpdateWrite(p)
    \/ \E p \in Callers : DeleteRead(p)
    \/ \E p \in Callers : DeleteWrite(p)

Spec == Init /\ [][Next]_vars

(***************************************************************************)
(* One caller: a single-record operation runs as a whole on the store.     *)
(***************************************************************************)
IdleCallers ==
    /\ pc = [p \in Callers |-> "idle"]
    /\ args = [p \in Callers |-> NoArgs]
    /\ pending = [p \in Callers |-> NoPending]
    /\ ret = [p \in Callers |-> NoOutcome]

InitSeq ==
    /\ store \in Stores(StoreRecords)
    /\ IdleCallers
    /\ trace = <<>>
    /\ call = NoCall
    /\ out = NoOutcome

SeqGet ==
    /\ call = NoCall
    /\ \E memory_id \in Ids, fault \in BOOLEAN, pl \in Payloads :
          /\ call' = [op |-> "get_memory", memory_id |-> memory_id, fault |-> fault, pl |-> pl]
          /\ out' = GetMemory(memory_id, StoreGet(store, memory_id, fault), pl)
    /\ UNCHANGED <<store, pc, args, pending, ret, trace>>

SeqUpdate ==
    /\ call = NoCall
    /\ \E memory_id \in Ids, content \in ArgContents, metadata \in ArgMetas,
          fault \in BOOLEAN, pl \in Payloads, sh \in UpdateShapes \cup {"raise"} :
          LET u == IF sh = "raise" THEN StoreError ELSE Returned(UpdateResponse(sh, memory_id))
              r == UpdateMemory(store, memory_id, content, metadata, fault, pl, u) IN
          /\ call' = [op |-> "update_memory", memory_id |-> memory_id, content |-> content,
                      metadata |-> metadata,
                      existing |-> GetMemory(memory_id, StoreGet(store, memory_id, fault), pl),
                      response |-> sh]
          /\ out' = r.ret
          /\ store' = r.store
          /\ trace' = r.calls
    /\ UNCHANGED <<pc, args, pending, ret>>

SeqDelete ==
    /\ call = NoCall
    /\ \E memory_id \in Ids, fault \in BOOLEAN, pl \in Payloads,
          d \in {StoreError, Returned(FALSE), Returned(TRUE)} :
          LET r == DeleteMemory(store, memory_id, fault, pl, d) IN
          /\ call' = [op |-> "delete_memory", memory_id |-> memory_id,
                      existing |-> GetMemory(memory_id, StoreGet(store, memory_id, fault), pl)]
          /\ out' = r.ret
          /\ store' = r.store
          /\ trace' = r.calls
    /\ UNCHANGED <<pc, args, pending, ret>>

\* delete_all_memories with any filter: matched is what the filter matches
SeqDeleteAll ==
    /\ call = NoCall
    /\ \E matched \in SUBSET DOMAIN store, fault \in BOOLEAN :
          LET r == DeleteAllMemories(store, matched, fault) IN
          /\ call' = [op |-> "delete_all_memories", matched |-> matched, before |-> store]
          /\ out' = r.ret
          /\ store' = r.store
          /\ trace' = r.calls
    /\ UNCHANGED <<pc, args, pending, ret>>

NextSeq == SeqGet \/ SeqUpdate \/ SeqDelete \/ SeqDeleteAll

SpecSeq == InitSeq /\ [][NextSeq]_vars

(***************************************************************************)
(* One caller: a batch operation runs as a whole on the store.             *)
(***************************************************************************)
MaxBatch == 2

SeqsUpTo(S, n) == UNION {[1..k -> S] : k \in 0..n}

BatchRecords == [content : {Some("x")}, metadata : {None, Some([a |-> 1]), Some([b |-> 2])}]

NoPayload == [raises |-> FALSE, data |-> ""]

\* the store's behaviour for one item of a batch (the outcome of a mutation
\* is left out where the failed get keeps it from being called)
DeleteEnvs == {e \in [fault : BOOLEAN, pl : {NoPayload}, d : {StoreError, Returned(FALSE), Returned(TRUE)}] :
                  e.fault => e.d = Returned(TRUE)}

CreateEnvs == [add : AddShapes \cup {"raise"}]

UpdateEnvs == {e \in [fault : BOOLEAN, pl : {NoPayload}, u : {StoreError, Returned(None)}] :
                  e.fault => e.u = Returned(None)}

CreateItems == {EmptyDict, [content |-> Some("")], [content |-> Some("m")]}

UpdateItems == [memory_id : {None, Some(1), Some(2)}, content : {None, Some("y")},
                metadata : {None, Some([a |-> 9])}]

InitBatch ==
    /\ store \in Stores(BatchRecords)
    /\ IdleCallers
    /\ trace = <<>>
    /\ call = NoCall
    /\ out = NoOutcome

BulkDelete ==
    /\ call = NoCall
    /\ \E memory_ids \in SeqsUpTo(Ids, MaxBatch) :
       \E env \in [1..Len(memory_ids) -> DeleteEnvs] :
          LET r == BulkDeleteMemories(store, memory_ids, env) IN
          /\ call' = [op |-> "bulk_delete_memories", items |-> memory_ids, env |-> env, before |-> store]
          /\ out' = r.ret
          /\ store' = r.store
          /\ trace' = r.calls
    /\ UNCHANGED <<pc, args, pending, ret>>

BatchCreate ==
    /\ call = NoCall
    /\ \E memories \in SeqsUpTo(CreateItems, MaxBatch) :
       \E env \in [1..Len(memories) -> CreateEnvs] :
          LET r == BatchCreateMemories(store, memories, env) IN
          /\ call' = [op |-> "batch_create_memories", items |-> memories, env |-> env, before |-> store]
          /\ out' = r.ret
          /\ store' = r.store
          /\ trace' = r.calls
    /\ UNCHANGED <<pc, args, pending, ret>>

BatchUpdate ==
    /\ call = NoCall
    /\ \E updates \in SeqsUpTo(UpdateItems, MaxBatch) :
       \E env \in [1..Len(updates) -> UpdateEnvs] :
          LET r == BatchUpdateMemories(store, updates, env) IN
          /\ call' = [op |-> "batch_update_memories", items |-> updates, env |-> env, before |-> store]
          /\ out' = r.ret
          /\ store' = r.store
          /\ trace' = r.calls
    /\ UNCHANGED <<pc, args, pending, ret>>

NextBatch == BulkDelete \/ BatchCreate \/ BatchUpdate

SpecBatch == InitBatch /\ [][NextBatch]_vars

(***************************************************************************)
(* One caller: create_memory or list_memories runs as a whole, on a store  *)
(* that holds no record yet.                                               *)
(***************************************************************************)
MaxResults == 2

MaxScan == 3

EmptyStore == [i \in {} |-> EmptyDict]

\* an entry of the results of Memory.add, as create_memory reads it
ResultEntries(n) ==
    {EmptyDict,
     [id |-> Some(10 * n + 1)],
     [id |-> Some(10 * n + 1), memory |-> Some("fact"), user_id |-> None, metadata |-> None],
     [id |-> Some(10 * n + 1), memory |-> None, user_id |-> Some("v"),
      metadata |-> Some(DictValue([b |-> 2])), created_at |-> Some("t1")],
     [id |-> Some(10 * n + 1), metadata |-> Some(NonDictValue("text")), created_at |-> None]}

\* the results of Memory.add: entry n is drawn from ResultEntries(n)
ResultLists ==
    UNION {{r \in [1..k -> UNION {ResultEntries(n) : n \in 1..k}] : \A n \in 1..k : r[n] \in ResultEntries(n)} :
           k \in 0..MaxResults}

CreateParams == [content : {"c"}, user_id : {None, Some("u")}, agent_id : {None}, run_id : {None},
                 metadata : {None, Some([a |-> 1])}]

FetchEnvs == [get : {"raise", "none", "found"}, pl : {NoPayload}]

\* an entry of the results of Memory.get_all: a record or something else
ListEntries == {DictValue([id |-> Some(1), memory |-> Some("m1")]),
                DictValue([id |-> Some(2), memory |-> Some("m2")]),
                NonDictValue("text")}

InitIngest ==
    /\ store = EmptyStore
    /\ IdleCallers
    /\ trace = <<>>
    /\ call = NoCall
    /\ out = NoOutcome

DoCreate ==
    /\ call = NoCall
    /\ \E p \in CreateParams :
       \E a \in {StoreError, Returned(EmptyDict)} \cup {Returned([results |-> r]) : r \in ResultLists} :
       \E fetch \in [1..(IF IsRaised(a) THEN 0 ELSE Len(PyGet(a.val, "results", <<>>))) -> FetchEnvs] :
          LET r == CreateMemory(store, p, a, fetch) IN
          /\ call' = [op |-> "create_memory", p |-> p, add |-> a, fetch |-> fetch]
          /\ out' = r.ret
          /\ store' = r.store
          /\ trace' = r.calls
    /\ UNCHANGED <<pc, args, pending, ret>>

DoList ==
    /\ call = NoCall
    /\ \E g \in {StoreError, Returned(EmptyDict)}
                 \cup {Returned([results |-> r]) : r \in SeqsUpTo(ListEntries, MaxScan)} :
          /\ call' = [op |-> "list_memories", get_all |-> g]
          /\ out' = ListMemories(g)
    /\ UNCHANGED <<store, pc, args, pending, ret, trace>>

NextIngest == DoCreate \/ DoList

SpecIngest == InitIngest /\ [][NextIngest]_vars

(***************************************************************************)
(* One caller: get_statistics or analyze_memory_quality runs as a whole    *)
(* over what Memory.get_all hands back.                                    *)
(***************************************************************************)
\* "hello world", a text being the sequence of the code points of its characters
LongText == <<104, 101, 108, 108, 111, 32, 119, 111, 114, 108, 100>>

\* the clock of the run: datetime.now(timezone.utc)
Now == Datetime(TRUE, 738946)

\* the records of a scan, before an id is given to them
ScanTemplates ==
    {[idkey |-> "id",
      fields |-> [metadata |-> Some([a |-> 1]), memory |-> Some(LongText), importance |-> Some(8),
                  created_at |-> Some("2024-02-27T00:00:00+00:00"), access_count |-> Some(2),
                  type |-> Some("fact")]],
     [idkey |-> "id",
      fields |-> [metadata |-> Some([a |-> 1]), memory |-> Some(LongText), importance |-> Some(5),
                  created_at |-> Some("2024-01-01T00:00:00+00:00"), access_count |-> Some(0),
                  memory_type |-> Some("note")]],
     [idkey |-> "id",
      fields |-> [metadata |-> None, memory |-> Some(LongText),
                  created_at |-> Some("2024-02-10T00:00:00+00:00")]],
     [idkey |-> "memory_id",
      fields |-> [metadata |-> Some(EmptyDict), memory |-> Some(<<104, 105>>),
                  created_at |-> Some("2024-03-01T00:00:00+00:00"), access_count |-> Some(5)]],
     [idkey |-> "id",
      fields |-> [metadata |-> Some([a |-> 1]), memory |-> Some(LongText), importance |-> Some(2),
                  created_at |-> Some("2024-02-27T00:00:00+00:00"), type |-> Some("")]],
     [idkey |-> "id",
      fields |-> [memory |-> Some(<<>>), importance |-> Some(0),
                  created_at |-> Some("2024-02-27T00:00:00+00:00"), access_count |-> Some(2)]],
     [idkey |-> "memory_id",
      fields |-> [metadata |-> Some([a |-> 1]), memory |-> None,
                  content |-> Some(<<32, 11, 104, 105, 160, 10, 133>>),
                  created_at |-> Some("2024-02-10T00:00:00+00:00")]],
     [idkey |-> "id",
      fields |-> [metadata |-> Some([b |-> 2]), memory |-> Some(<<104, 101, 108, 108, 111>>),
                  importance |-> Some(3), created_at |-> Some("2024-03-01T00:00:00+00:00")]],
     [idkey |-> "id",
      fields |-> [metadata |-> Some([a |-> 1]), memory |-> Some(LongText), importance |-> Some(8)]],
     [idkey |-> "id",
      fields |-> [metadata |-> Some([a |-> 1]), memory |-> Some(LongText),
                  created_at |-> Some("2024-02-27T00:00:00")]],
     [idkey |-> "id",
      fields |-> [metadata |-> None, memory |-> Some(LongText), created_at |-> Some("not a date")]],
     [idkey |-> "id",
      fields |-> [metadata |-> Some([a |-> 1]), data |-> Some(LongText), access_count |-> Some(3),
                  created_at |-> Some("2024-01-01T00:00:00+00:00")]],
     [idkey |-> "id",
      fields |-> [metadata |-> Some([a |-> 1]), memory |-> Some(<<>>), content |-> Some(LongText),
                  created_at |-> Some("2024-02-27T00:00:00+00:00")]]}

\* the record at position i of a scan carries the id i
ScanRecord(template, i) == PySet(template.fields, template.idkey, Some(i))

Scans == {[i \in DOMAIN ts |-> ScanRecord(ts[i], i)] : ts \in SeqsUpTo(ScanTemplates, MaxScan)}

ScanOutcomes == {StoreError, Returned(EmptyDict)} \cup {Returned([results |-> r]) : r \in Scans}

Cutoffs == {None, Some(Datetime(TRUE, 738931)), Some(Datetime(TRUE, 738886)), Some(Datetime(FALSE, 738931))}

InitAnalytics ==
    /\ store = EmptyStore
    /\ IdleCallers
    /\ trace = <<>>
    /\ call = NoCall
    /\ out = NoOutcome

DoStatistics ==
    /\ call = NoCall
    /\ \E native \in {StoreError, Returned([source |-> "Memory.get_statistics"])} :
       \E cutoff_date \in Cutoffs :
       \E g \in ScanOutcomes :
       \E dateutil \in BOOLEAN :
          /\ call' = [op |-> "get_statistics", native |-> native, cutoff_date |-> cutoff_date,
                      get_all |-> g, dateutil |-> dateutil]
          /\ out' = GetStatistics(native, cutoff_date, g, Now, dateutil)
    /\ UNCHANGED <<store, pc, args, pending, ret, trace>>

DoAnalyze ==
    /\ call = NoCall
    /\ \E cutoff_date \in Cutoffs :
       \E g \in ScanOutcomes :
       \E dateutil \in BOOLEAN :
          /\ call' = [op |-> "analyze_memory_quality", cutoff_date |-> cutoff_date, get_all |-> g,
                      dateutil |-> dateutil]
          /\ out' = AnalyzeMemoryQuality(cutoff_date, g, dateutil)
    /\ UNCHANGED <<store, pc, args, pending, ret, trace>>

\* _calculate_stats_from_memories on a list of records
DoCalculateStats ==
    /\ call = NoCall
    /\ \E memories \in Scans :
       \E dateutil \in BOOLEAN :
          /\ call' = [op |-> "_calculate_stats_from_memories", memories |-> memories,
                      dateutil |-> dateutil]
          /\ out' = CalculateStatsFromMemories(memories, Now, dateutil)
    /\ UNCHANGED <<store, pc, args, pending, ret, trace>>

NextAnalytics == DoStatistics \/ DoAnalyze \/ DoCalculateStats

SpecAnalytics == InitAnalytics /\ [][NextAnalytics]_vars

(***************************************************************************)
(* One caller, one record: update_memory and batch_update_memories run one *)
(* after the other, each as a whole.  call keeps the records at the start  *)
(* and, per update, the metadata supplied and whether it succeeded.        *)
(***************************************************************************)
MaxOps == 2

HistoryItems == [memory_id : {Some(1)}, content : {None, Some("y")}, metadata : ArgMetas]

\* the entry of the history for an update that supplied metadata
Supplied(metadata, ok) == [metadata |-> metadata, ok |-> ok]

InitHistory ==
    /\ store \in [{1} -> [content : {Some("x")}, metadata : StoreMetas]]
    /\ IdleCallers
    /\ trace = <<>>
    /\ call = [op |-> "none", before |-> store, ops |-> <<>>]
    /\ out = NoOutcome

HistoryUpdate ==
    /\ Len(call.ops) < MaxOps
    /\ \E item \in HistoryItems, e \in UpdateEnvs :
          LET r == UpdateMemory(store, item.memory_id[1], item.content, item.metadata,
                                e.fault, e.pl, e.u) IN
          /\ call' = [op |-> "update_memory", before |-> call.before,
                      ops |-> Append(call.ops, Supplied(item.metadata, IsReturned(r.ret)))]
          /\ out' = r.ret
          /\ store' = r.store
          /\ trace' = trace \o r.calls
    /\ UNCHANGED <<pc, args, pending, ret>>

HistoryBatchUpdate ==
    /\ Len(call.ops) < MaxOps
    /\ \E n \in 1..(MaxOps - Len(call.ops)) :
       \E updates \in [1..n -> HistoryItems], env \in [1..n -> UpdateEnvs] :
          LET r == BatchUpdateMemories(store, updates, env)
              ok == {r.ret.val.updated[k].index + 1 : k \in 1..Len(r.ret.val.updated)} IN
          /\ call' = [op |-> "batch_update_memories", before |-> call.before,
                      ops |-> call.ops \o [i \in 1..n |-> Supplied(updates[i].metadata, i \in ok)]]
          /\ out' = r.ret
          /\ store' = r.store
          /\ trace' = trace \o r.calls
    /\ UNCHANGED <<pc, args, pending, ret>>

NextHistory == HistoryUpdate \/ HistoryBatchUpdate

SpecHistory == InitHistory /\ [][NextHistory]_vars

(***************************************************************************)
(* Properties of update_memory                                             *)
(***************************************************************************)
InvalidArgument == "INVALID_ARGUMENT"

\* the metadata of the record update_memory fetched, and the one it passed on
ExistingMeta == PyGet(call.existing.val, "metadata", None)

PassedMeta == trace[1].metadata

UpdateReachedStore == call.op = "update_memory" /\ Len(trace) = 1

\* C2: the metadata update_memory passes to the store's update is the shallow
\* merge of existing then new (new wins on a shared key) when both are
\* non-empty, and otherwise the one of the two that is non-empty (an empty or
\* null value when neither is).
C2_MergeRule ==
    UpdateReachedStore =>
        IF TruthyDict(ExistingMeta) /\ TruthyDict(call.metadata)
        THEN /\ ~IsNone(PassedMeta)
             /\ DOMAIN PassedMeta[1] = DOMAIN ExistingMeta[1] \cup DOMAIN call.metadata[1]
             /\ \A k \in DOMAIN call.metadata[1] : PassedMeta[1][k] = call.metadata[1][k]
             /\ \A k \in DOMAIN ExistingMeta[1] \ DOMAIN call.metadata[1] :
                   PassedMeta[1][k] = ExistingMeta[1][k]
        ELSE IF TruthyDict(call.metadata) THEN PassedMeta = call.metadata
        ELSE IF TruthyDict(ExistingMeta) THEN PassedMeta = ExistingMeta
        ELSE ~TruthyDict(PassedMeta)

\* existing {a:1} merged with new {a:9} reached the store as {a:9}
C2_Witness ==
    /\ UpdateReachedStore
    /\ ExistingMeta = Some([a |-> 1])
    /\ call.metadata = Some([a |-> 9])
    /\ PassedMeta = Some([a |-> 9])

\* C4: update_memory with content and metadata both null, on a record that
\* get_memory found, fails with an error of kind InvalidArgument.
C4_InvalidArgument ==
    (/\ call.op = "update_memory"
     /\ IsReturned(call.existing)
     /\ IsNone(call.content)
     /\ IsNone(call.metadata))
    => (IsRaised(out) /\ out.code = InvalidArgument)

\* position in the trace of the store call op made by caller p
Pos(p, op) == CHOOSE i \in 1..Len(trace) : trace[i].by = p /\ trace[i].call.op = op

\* p and q both ran update_memory on one id and returned a result; both read
\* the record before either wrote it, and q wrote last
RacedUpdates(p, q) ==
    /\ p # q
    /\ pc[p] = "done" /\ pc[q] = "done"
    /\ args[p].op = "update_memory" /\ args[q].op = "update_memory"
    /\ args[p].memory_id = args[q].memory_id
    /\ IsReturned(ret[p]) /\ IsReturned(ret[q])
    /\ Pos(p, "get") < Pos(p, "update") /\ Pos(q, "get") < Pos(p, "update")
    /\ Pos(p, "update") < Pos(q, "update")

\* the metadata keys that only p's update supplied
OnlyFrom(p, q) ==
    IF IsNone(args[p].metadata) THEN {}
    ELSE DOMAIN args[p].metadata[1]
         \ ((IF TruthyDict(PyGet(pending[q].existing, "metadata", None))
              THEN DOMAIN pending[q].existing.metadata[1] ELSE {})
             \cup (IF IsNone(args[q].metadata) THEN {} ELSE DOMAIN args[q].metadata[1]))

StoredKeys(memory_id) ==
    IF memory_id \in DOMAIN store /\ TruthyDict(PyGet(store[memory_id], "metadata", None))
    THEN DOMAIN store[memory_id].metadata[1] ELSE {}

\* C5: update_memory is not atomic: when two calls on one id both read the
\* record before either writes it, both return a result and the record stored
\* by the later write lacks every metadata key that only the earlier one added.
C5_LostUpdate ==
    \A p, q \in Callers :
        RacedUpdates(p, q) => OnlyFrom(p, q) \cap StoredKeys(args[q].memory_id) = {}

\* two raced updates after which a key of the first writer is gone
C5_Witness ==
    \E p, q \in Callers :
        /\ RacedUpdates(p, q)
        /\ OnlyFrom(p, q) # {}
        /\ OnlyFrom(p, q) \cap StoredKeys(args[q].memory_id) = {}

(***************************************************************************)
(* Properties of the batch operations                                      *)
(***************************************************************************)
BatchOp == call.op \in {"bulk_delete_memories", "batch_create_memories", "batch_update_memories"}

Successes ==
    CASE call.op = "bulk_delete_memories" -> out.val.deleted
      [] call.op = "batch_create_memories" -> out.val.created
      [] OTHER -> out.val.updated

SuccessCount ==
    CASE call.op = "bulk_delete_memories" -> out.val.deleted_count
      [] call.op = "batch_create_memories" -> out.val.created_count
      [] OTHER -> out.val.updated_count

\* the elements of seq at the positions in S, in order
RECURSIVE Pick(_, _, _)
Pick(seq, S, i) ==
    IF i > Len(seq) THEN <<>>
    ELSE (IF i \in S THEN <<seq[i]>> ELSE <<>>) \o Pick(seq, S, i + 1)

\* S is the set of input positions that are in the success list, and the
\* other positions are in the failure list: entries of batch_create and
\* batch_update name their position, bulk_delete lists the ids in input order
SplitsAt(S) ==
    IF call.op = "bulk_delete_memories"
    THEN /\ out.val.deleted = Pick(call.items, S, 1)
         /\ [k \in 1..Len(out.val.failed) |-> out.val.failed[k].memory_id]
                = Pick(call.items, (1..Len(call.items)) \ S, 1)
    ELSE /\ [k \in 1..Len(Successes) |-> Successes[k].index + 1] = Pick([i \in 1..Len(call.items) |-> i], S, 1)
         /\ [k \in 1..Len(out.val.failed) |-> out.val.failed[k].index + 1]
                = Pick([i \in 1..Len(call.items) |-> i], (1..Len(call.items)) \ S, 1)

\* C1: a batch operation over N items returns total = N and success count +
\* failure count = N, and every input position has exactly one entry, in
\* exactly one of the two result lists.
C1_BatchPartition ==
    BatchOp =>
        /\ IsReturned(out)
        /\ out.val.total = Len(call.items)
        /\ SuccessCount = Len(Successes)
        /\ out.val.failed_count = Len(out.val.failed)
        /\ SuccessCount + out.val.failed_count = Len(call.items)
        /\ \E S \in SUBSET (1..Len(call.items)) : SplitsAt(S)

\* a batch_create_memories of two items, one created and one failed
C1_Witness ==
    /\ call.op = "batch_create_memories"
    /\ IsReturned(out)
    /\ Len(call.items) = 2
    /\ out.val.created_count = 1
    /\ out.val.failed_count = 1

\* item i fails: the store raises or refuses, the id is not in the store, or
\* the item is invalid
ItemFails(i) ==
    LET item == call.items[i]
        e == call.env[i] IN
    CASE call.op = "bulk_delete_memories" ->
            e.fault \/ item \notin DOMAIN call.before \/ e.d # Returned(TRUE)
      [] call.op = "batch_create_memories" ->
            ~TruthyStr(PyGet(item, "content", None)) \/ e.add = "raise"
      [] OTHER ->
            \/ IsNone(item.memory_id)
            \/ IsNone(item.content) /\ IsNone(item.metadata)
            \/ e.fault \/ IsRaised(e.u)
            \/ item.memory_id[1] \notin DOMAIN call.before

\* item i has no cause to fail
ItemClean(i) ==
    LET item == call.items[i]
        e == call.env[i] IN
    CASE call.op = "bulk_delete_memories" ->
            ~ItemFails(i) /\ \A j \in 1..(i - 1) : call.items[j] # item
      [] call.op = "batch_create_memories" ->
            TruthyStr(PyGet(item, "content", None)) /\ e.add \in {"one", "two"}
      [] OTHER -> ~ItemFails(i)

\* C3: in a batch operation the failure of an item is never raised to the
\* caller and never ends the run: the call returns, each failed item is in
\* the failure list, and each item with no cause to fail is in the success
\* list, also after a failed one.
C3_FailureIsolated ==
    BatchOp =>
        /\ IsReturned(out)
        /\ \E S \in SUBSET (1..Len(call.items)) :
              /\ SplitsAt(S)
              /\ \A i \in 1..Len(call.items) : (ItemFails(i) => i \notin S) /\ (ItemClean(i) => i \in S)

\* a bulk_delete_memories whose first item met a store failure and whose
\* second item was deleted
C3_Witness ==
    /\ call.op = "bulk_delete_memories"
    /\ IsReturned(out)
    /\ Len(call.items) = 2
    /\ call.env[1].fault
    /\ out.val.deleted = <<call.items[2]>>
    /\ Len(out.val.failed) = 1
    /\ out.val.failed[1].memory_id = call.items[1]

(***************************************************************************)
(* Properties of create_memory and list_memories                           *)
(***************************************************************************)
\* the result entries Memory.add reported to the create_memory that ran
AddReported == PyGet(call.add.val, "results", <<>>)

\* C9: a create_memory whose Memory.add returns with zero result entries
\* returns the empty list and raises no error.
C9_EmptyAddReturnsEmptyList ==
    (call.op = "create_memory" /\ IsReturned(call.add) /\ Len(AddReported) = 0) =>
        (IsReturned(out) /\ out.val = <<>>)

\* a create_memory ran on an add that returned an empty results list
C9_Witness ==
    /\ call.op = "create_memory"
    /\ call.add = Returned([results |-> <<>>])
    /\ out = Returned(<<>>)

\* the result list Memory.get_all handed to the list_memories that ran
RawList == PyGet(call.get_all.val, "results", <<>>)

Malformed(raw) == {i \in 1..Len(raw) : ~raw[i].dict}

\* C10: list_memories returns the mapping-shaped entries of the store's list
\* in the store's order and drops every other entry without failing: the
\* length returned is the raw count minus the number of malformed entries.
C10_MalformedDropped ==
    (call.op = "list_memories" /\ IsReturned(call.get_all)) =>
        /\ IsReturned(out)
        /\ out.val = SelectSeq(RawList, LAMBDA e : e.dict)
        /\ Len(out.val) = Len(RawList) - Cardinality(Malformed(RawList))

\* a list_memories over [dict, non-dict, dict] returned the two dicts
C10_Witness ==
    /\ call.op = "list_memories"
    /\ IsReturned(call.get_all)
    /\ Len(RawList) = 3
    /\ Malformed(RawList) = {2}
    /\ IsReturned(out)
    /\ out.val = <<RawList[1], RawList[3]>>

(***************************************************************************)
(* Properties of get_statistics and analyze_memory_quality                 *)
(***************************************************************************)
\* the records Memory.get_all handed to the analytics call that ran
Scanned == PyGet(call.get_all.val, "results", <<>>)

\* the day of a record's created_at, the earliest day when there is none
CreatedDay(m) == ParseDatetime(PyGet(m, "created_at", None), TRUE).day

\* the records of the scan created at the cutoff or later
Since(cutoff_date) == SelectSeq(Scanned, LAMBDA m : CreatedDay(m) >= cutoff_date[1].day)

\* C6: get_statistics with a cutoff returns the snapshot recomputed on the
\* scanned records with created_at >= cutoff, and its total_memories is the
\* number of those records.
C6_CutoffSnapshot ==
    (/\ call.op = "get_statistics"
     /\ ~IsNone(call.cutoff_date)
     /\ IsReturned(call.native)
     /\ IsReturned(call.get_all)) =>
        /\ IsReturned(out)
        /\ out = CalculateStatsFromMemories(Since(call.cutoff_date), Now, TRUE)
        /\ out.val.total_memories = Len(Since(call.cutoff_date))

\* the same on scans whose created_at are all present and timezone-aware,
\* under a timezone-aware cutoff, dateutil being installed
AllAware(memories) ==
    \A i \in 1..Len(memories) :
        /\ TruthyStr(PyGet(memories[i], "created_at", None))
        /\ Parseable(memories[i].created_at[1])
        /\ ParseDatetime(memories[i].created_at, TRUE).aware

C6_AwareCutoffSnapshot ==
    (/\ call.op = "get_statistics"
     /\ ~IsNone(call.cutoff_date)
     /\ IsReturned(call.native)
     /\ IsReturned(call.get_all)
     /\ call.cutoff_date[1].aware
     /\ call.dateutil
     /\ AllAware(Scanned)) =>
        /\ IsReturned(out)
        /\ out = CalculateStatsFromMemories(Since(call.cutoff_date), Now, TRUE)
        /\ out.val.total_memories = Len(Since(call.cutoff_date))

\* the records analyze_memory_quality examined: the scan, cut at the cutoff
Examined ==
    IF IsNone(call.cutoff_date) THEN Scanned
    ELSE FilterByCutoff(Scanned, call.cutoff_date[1], call.dateutil, 1, <<>>).val

AnalyzeReported == call.op = "analyze_memory_quality" /\ IsReturned(out)

Defective(memory) == MissingMetadata(memory) \/ EmptyContent(memory) \/ LowImportance(memory)

\* C7: in a report over at least one record, low_quality_count is the number
\* of examined records with at least one defect, and the counter of each
\* criterion is the number of records that trigger it.
C7_CountedOnce ==
    (AnalyzeReported /\ Len(Examined) > 0) =>
        LET N == 1..Len(Examined) IN
        /\ out.val.low_quality_count = Cardinality({i \in N : Defective(Examined[i])})
        /\ out.val.quality_criteria.missing_metadata = Cardinality({i \in N : MissingMetadata(Examined[i])})
        /\ out.val.quality_criteria.empty_content = Cardinality({i \in N : EmptyContent(Examined[i])})
        /\ out.val.quality_criteria.low_importance = Cardinality({i \in N : LowImportance(Examined[i])})

\* a report over a record with empty metadata and a content of length 2,
\* next to a record without defect: both counters are 1 and the count is 1
C7_Witness ==
    /\ AnalyzeReported
    /\ Len(Examined) = 2
    /\ \E i \in 1..2 : /\ PyGet(Examined[i], "metadata", None) = Some(EmptyDict)
                       /\ Len(ResolvedContent(Examined[i])) = 2
                       /\ ~LowImportance(Examined[i])
    /\ \E i \in 1..2 : ~Defective(Examined[i])
    /\ out.val.quality_criteria.missing_metadata = 1
    /\ out.val.quality_criteria.empty_content = 1
    /\ out.val.low_quality_count = 1

\* C8: every report has 0 <= low_quality_count <= total_memories and a
\* low_quality_ratio in [0,1] that is low_quality_count / total_memories to
\* four decimals; when no record is examined the call returns the all-zero
\* report with empty quality_criteria.
C8_ReportBounds ==
    /\ AnalyzeReported =>
          /\ 0 <= out.val.low_quality_count
          /\ out.val.low_quality_count <= out.val.total_memories
          /\ 0 <= out.val.low_quality_ratio
          /\ out.val.low_quality_ratio <= 10000
          /\ out.val.total_memories = Len(Examined)
          /\ LET d == out.val.low_quality_ratio * out.val.total_memories
                       - 10000 * out.val.low_quality_count IN
             2 * d <= out.val.total_memories /\ -(2 * d) <= out.val.total_memories
    /\ (/\ call.op = "analyze_memory_quality"
        /\ IsReturned(call.get_all)
        /\ \/ Len(Scanned) = 0
           \/ /\ ~IsNone(call.cutoff_date)
              /\ IsReturned(FilterByCutoff(Scanned, call.cutoff_date[1], call.dateutil, 1, <<>>))
              /\ Len(Examined) = 0) =>
          /\ IsReturned(out)
          /\ out.val.total_memories = 0
          /\ out.val.low_quality_count = 0
          /\ out.val.low_quality_ratio = 0
          /\ DOMAIN out.val.quality_criteria = {}

\* a scan of three records all older than the cutoff gave the all-zero report
C8_Witness ==
    /\ call.op = "analyze_memory_quality"
    /\ IsReturned(call.get_all)
    /\ Len(Scanned) = 3
    /\ ~IsNone(call.cutoff_date)
    /\ IsReturned(out)
    /\ out.val.total_memories = 0
    /\ DOMAIN out.val.quality_criteria = {}

\* a report over three records of which one is of low quality: ratio 0.3333
C8_WitnessRatio ==
    /\ AnalyzeReported
    /\ out.val.total_memories = 3
    /\ out.val.low_quality_count = 1
    /\ out.val.low_quality_ratio = 3333

(***************************************************************************)
(* Properties of bulk_delete_memories                                      *)
(***************************************************************************)
\* a bulk_delete_memories over distinct ids on a store that works
CleanBulkDelete ==
    /\ call.op = "bulk_delete_memories"
    /\ \A i, j \in 1..Len(call.items) : call.items[i] = call.items[j] => i = j
    /\ \A i \in 1..Len(call.items) : ~call.env[i].fault /\ call.env[i].d = Returned(TRUE)

\* the error get_memory raises for an id the store does not hold
NotFoundError(memory_id) == GetMemory(memory_id, Returned(None), NoPayload)

\* C11: bulk_delete_memories over distinct ids, on a store that works:
\* every id the store held is in the success list and gone from the store,
\* and every id it did not hold has exactly one failure entry, which names
\* the id and carries the error of kind NotFound.
C11_AbsentIdsNotFound ==
    CleanBulkDelete =>
        /\ IsReturned(out)
        /\ out.val.deleted = SelectSeq(call.items, LAMBDA id : id \in DOMAIN call.before)
        /\ \A i \in 1..Len(call.items) : call.items[i] \notin DOMAIN store
        /\ Len(out.val.failed) = Cardinality({i \in 1..Len(call.items) : call.items[i] \notin DOMAIN call.before})
        /\ \A i \in 1..Len(call.items) :
              call.items[i] \notin DOMAIN call.before =>
                 /\ NotFoundError(call.items[i]).code = MEMORY_NOT_FOUND
                 /\ Cardinality({k \in 1..Len(out.val.failed) :
                                   out.val.failed[k].memory_id = call.items[i]}) = 1
                 /\ \A k \in 1..Len(out.val.failed) :
                       out.val.failed[k].memory_id = call.items[i] =>
                          out.val.failed[k].error = NotFoundError(call.items[i]).message

\* two distinct ids, the second one absent: one success, one NotFound failure
C11_Witness ==
    /\ CleanBulkDelete
    /\ Len(call.items) = 2
    /\ call.items[1] \in DOMAIN call.before
    /\ call.items[2] \notin DOMAIN call.before
    /\ IsReturned(out)
    /\ out.val.deleted = <<call.items[1]>>
    /\ out.val.deleted_count = 1
    /\ out.val.failed_count = 1
    /\ out.val.failed[1].memory_id = call.items[2]
    /\ call.items[1] \notin DOMAIN store

(***************************************************************************)
(* Properties of the records handed to the caller                          *)
(***************************************************************************)
\* record has a metadata field and the field holds a mapping
HasMetadataMapping(record) == "metadata" \in DOMAIN record /\ ~IsNone(record.metadata)

\* C12: every record get_memory or create_memory returns has a metadata
\* field that is a mapping, never null or absent, whatever the store holds.
C12_MetadataIsMapping ==
    /\ (call.op = "get_memory" /\ IsReturned(out)) => HasMetadataMapping(out.val)
    /\ (call.op = "create_memory" /\ IsReturned(out)) =>
          \A i \in 1..Len(out.val) : HasMetadataMapping(out.val[i])

(***************************************************************************)
(* Properties of the ids in results                                        *)
(***************************************************************************)
\* C13: whenever update_memory returns, the result carries the id of the
\* updated record, whatever the store's raw update response was (a payload
\* without the id, an empty or a null response).
C13_ResultCarriesId ==
    (call.op = "update_memory" /\ IsReturned(out)) =>
        /\ ~IsNone(out.val)
        /\ "id" \in DOMAIN out.val[1]
        /\ out.val[1].id = call.memory_id

\* the id the precedence results[0].id, memory_id, id yields on result: the
\* first of the three that is there and not null
IdByPrecedence(result) ==
    LET first == IF "results" \in DOMAIN result /\ Len(result.results) > 0
                 THEN PyGet(result.results[1], "id", None) ELSE None
        second == PyGet(result, "memory_id", None)
        third == PyGet(result, "id", None) IN
    IF ~IsNone(first) THEN first ELSE IF ~IsNone(second) THEN second ELSE third

\* C14: in batch_create_memories an item whose add returned is created under
\* the first id that results[0].id, top-level memory_id and top-level id
\* yield, and is a failure only when none of the three yields an id.
C14_IdPrecedence ==
    (call.op = "batch_create_memories" /\ IsReturned(out)) =>
        \A i \in 1..Len(call.items) :
            (TruthyStr(PyGet(call.items[i], "content", None)) /\ call.env[i].add # "raise") =>
                LET id == IdByPrecedence(AddResult(call.env[i].add, i)) IN
                IF IsNone(id)
                THEN \E k \in 1..Len(out.val.failed) : out.val.failed[k].index = i - 1
                ELSE \E k \in 1..Len(out.val.created) :
                        /\ out.val.created[k].index = i - 1
                        /\ out.val.created[k].memory_id = id[1]

(***************************************************************************)
(* batch_update_memories against update_memory                             *)
(***************************************************************************)
\* update_memory called for the items of the batch one after the other, from
\* item i on, on records st: the records at the end, the store mutations
\* invoked and the positions of the calls that returned.  An item without
\* memory_id gives no call.
RECURSIVE UpdatesOneByOne(_, _, _)
UpdatesOneByOne(i, st, acc) ==
    IF i > Len(call.items) THEN [acc EXCEPT !.store = st]
    ELSE LET item == call.items[i] IN
         IF IsNone(item.memory_id) THEN UpdatesOneByOne(i + 1, st, acc)
         ELSE LET r == UpdateMemory(st, item.memory_id[1], item.content, item.metadata,
                                    call.env[i].fault, call.env[i].pl, call.env[i].u) IN
              UpdatesOneByOne(i + 1, r.store,
                              [acc EXCEPT !.calls = acc.calls \o r.calls,
                                          !.ok = IF IsReturned(r.ret) THEN acc.ok \cup {i} ELSE acc.ok])

\* C15: an item of batch_update_memories succeeds exactly when update_memory
\* with the same arguments, on the same records, returns, and the content
\* and metadata written to the store are the same in both.
C15_SameRuleAsUpdate ==
    (call.op = "batch_update_memories" /\ IsReturned(out)) =>
        LET one == UpdatesOneByOne(1, call.before, [store |-> call.before, calls |-> <<>>, ok |-> {}]) IN
        /\ {out.val.updated[k].index + 1 : k \in 1..Len(out.val.updated)} = one.ok
        /\ trace = one.calls
        /\ store = one.store

\* a batch of two updates of the same record: the first one adds a content,
\* the second one merges its metadata over the record the first one wrote
C15_Witness ==
    /\ call.op = "batch_update_memories"
    /\ IsReturned(out)
    /\ Len(call.items) = 2
    /\ out.val.updated_count = 2
    /\ call.items[1].memory_id = call.items[2].memory_id
    /\ call.items[1].metadata = None
    /\ call.items[2].content = None
    /\ Len(trace) = 2
    /\ trace[2].content = Some("y")
    /\ trace[2].metadata = Some([a |-> 9, b |-> 2])

(***************************************************************************)
(* Store failures in the read operations                                   *)
(***************************************************************************)
\* a store call the read operation that ran has made did fail
StoreCallFailed ==
    CASE call.op = "get_memory" -> call.fault
      [] call.op = "list_memories" -> IsRaised(call.get_all)
      [] call.op = "analyze_memory_quality" -> IsRaised(call.get_all)
      [] call.op = "get_statistics" ->
            \/ IsRaised(call.native)
            \/ ~IsNone(call.cutoff_date) /\ IsRaised(call.get_all)
      [] OTHER -> FALSE

\* C16: a failure of a store call made by get_memory, list_memories,
\* get_statistics or analyze_memory_quality reaches the caller as an error
\* of kind InternalError, never as the store's own exception.
C16_StoreFailureIsInternalError ==
    StoreCallFailed =>
        /\ IsRaised(out)
        /\ out.exc = "APIError"
        /\ out.code = INTERNAL_ERROR

(***************************************************************************)
(* The fallback of create_memory                                           *)
(***************************************************************************)
\* the positions of the entries Memory.add reported with an id
WithId == {i \in 1..Len(AddReported) : ~IsNone(PyGet(AddReported[i], "id", None))}

\* the position in the output of the record of entry i
OutPos(i) == Cardinality({j \in WithId : j <= i})

\* the value of a field of the fallback record: the entry's, if the entry
\* has the key with a value that is not null, else the caller's parameter
Resolved(entry, key, param) ==
    IF key \in DOMAIN entry /\ entry[key] # None THEN entry[key] ELSE param

\* C17: a create_memory whose add returned entries returns one record per
\* entry with an id, in the store's order, and does not fail when a re-fetch
\* fails; the record of an entry whose re-fetch failed has the entry's id
\* and, for content, user_id, agent_id and run_id, the entry's value where
\* the entry has a non-null one and the caller's parameter elsewhere.
C17_FallbackRecord ==
    (call.op = "create_memory" /\ IsReturned(call.add) /\ Len(AddReported) > 0) =>
        /\ IsReturned(out)
        /\ Len(out.val) = Cardinality(WithId)
        /\ \A i \in WithId :
              call.fetch[i].get \in {"raise", "none"} =>
                 LET record == out.val[OutPos(i)]
                     entry == AddReported[i] IN
                 /\ record.id = entry.id
                 /\ record.content = Resolved(entry, "memory", Some(call.p.content))
                 /\ record.user_id = Resolved(entry, "user_id", call.p.user_id)
                 /\ record.agent_id = Resolved(entry, "agent_id", call.p.agent_id)
                 /\ record.run_id = Resolved(entry, "run_id", call.p.run_id)

\* two entries, the re-fetch of the first raised and that of the second found
\* nothing: two records, the first with the entry's content and, the entry's
\* user_id being null, the caller's user_id
C17_Witness ==
    /\ call.op = "create_memory"
    /\ IsReturned(call.add)
    /\ Len(AddReported) = 2
    /\ call.fetch[1].get = "raise"
    /\ call.fetch[2].get = "none"
    /\ "user_id" \in DOMAIN AddReported[1]
    /\ AddReported[1].user_id = None
    /\ call.p.user_id = Some("u")
    /\ IsReturned(out)
    /\ Len(out.val) = 2
    /\ out.val[1].content = Some("fact")
    /\ out.val[1].user_id = Some("u")
    /\ out.val[2].id = AddReported[2].id

(***************************************************************************)
(* Records without a usable created_at under a cutoff                      *)
(***************************************************************************)
\* the created_at of m is missing or is not parsed in the run
NoCreatedAt(m) ==
    LET created_at == PyGet(m, "created_at", None) IN
    ~TruthyStr(created_at) \/ ~call.dateutil \/ ~Parseable(created_at[1])

\* an analytics call with a cutoff whose scan returned a record without a
\* usable created_at
CutoffOverSentinel ==
    /\ call.op \in {"get_statistics", "analyze_memory_quality"}
    /\ call.op = "get_statistics" => IsReturned(call.native)
    /\ ~IsNone(call.cutoff_date)
    /\ IsReturned(call.get_all)
    /\ \E i \in 1..Len(Scanned) : NoCreatedAt(Scanned[i])

\* C18: under a cutoff, a record whose created_at is missing or unparseable
\* does not make get_statistics or analyze_memory_quality raise, and is left
\* out of the records counted.
C18_SentinelNeverRaises ==
    CutoffOverSentinel =>
        /\ IsReturned(out)
        /\ out.val.total_memories <= Cardinality({i \in 1..Len(Scanned) : ~NoCreatedAt(Scanned[i])})

(***************************************************************************)
(* Properties of the recomputed snapshot                                   *)
(***************************************************************************)
Recomputed == call.op = "_calculate_stats_from_memories"

\* the importance of m in tenths, 0.5 where m has none
ImportanceOf(m) ==
    LET importance == PyGet(m, "importance", None) IN
    IF IsNone(importance) THEN 5 ELSE importance[1]

RECURSIVE SumImportance(_, _)
SumImportance(memories, i) ==
    IF i > Len(memories) THEN 0 ELSE ImportanceOf(memories[i]) + SumImportance(memories, i + 1)

\* C19: avg_importance of the recomputed snapshot is the mean of the
\* records' importance, with 0.5 for a record that has none and its own
\* value for every other record (0 included); it is 0 for no record.
C19_AvgImportance ==
    (Recomputed /\ IsReturned(out)) =>
        LET avg == out.val.avg_importance IN
        IF Len(call.memories) = 0 THEN avg.num = 0 /\ avg.den # 0
        ELSE avg.den # 0 /\ avg.num * 10 * Len(call.memories) = SumImportance(call.memories, 1) * avg.den

\* m has a created_at that is parsed in the run
HasCreatedAt(m) ==
    LET created_at == PyGet(m, "created_at", None) IN
    TruthyStr(created_at) /\ call.dateutil /\ Parseable(created_at[1])

Dated == {i \in 1..Len(call.memories) : HasCreatedAt(call.memories[i])}

\* the day and the age in days of a record with a created_at
DayOf(m) == (CHOOSE e \in DateTable : e.text = m.created_at[1]).key

AgeOf(m) == Now.day - (CHOOSE e \in DateTable : e.text = m.created_at[1]).day

InBucket(age, bucket) ==
    CASE bucket = "< 1 day" -> age < 1
      [] bucket = "1-7 days" -> 1 <= age /\ age < 7
      [] bucket = "7-30 days" -> 7 <= age /\ age < 30
      [] OTHER -> 30 <= age

RECURSIVE SumOver(_, _)
SumOver(d, keys) ==
    IF keys = {} THEN 0
    ELSE LET k == CHOOSE k \in keys : TRUE IN d[k] + SumOver(d, keys \ {k})

\* C20: in the recomputed snapshot every record with a parseable created_at
\* is counted in the growth_trend of its day and in the age bucket of its
\* age, every other record in neither, and all of them in total_memories and
\* by_type: the two maps both add up to the number of records with a
\* parseable created_at, which is at most total_memories.
C20_DatedRecordsCounted ==
    Recomputed =>
        /\ IsReturned(out)
        /\ out.val.total_memories = Len(call.memories)
        /\ SumOver(out.val.by_type, DOMAIN out.val.by_type) = Len(call.memories)
        /\ DOMAIN out.val.age_distribution = AgeBuckets
        /\ \A b \in AgeBuckets :
              out.val.age_distribution[b] =
                 Cardinality({i \in Dated : InBucket(AgeOf(call.memories[i]), b)})
        /\ DOMAIN out.val.growth_trend = {DayOf(call.memories[i]) : i \in Dated}
        /\ \A day \in DOMAIN out.val.growth_trend :
              out.val.growth_trend[day] = Cardinality({i \in Dated : DayOf(call.memories[i]) = day})
        /\ SumOver(out.val.age_distribution, AgeBuckets) = Cardinality(Dated)
        /\ SumOver(out.val.growth_trend, DOMAIN out.val.growth_trend) = Cardinality(Dated)
        /\ Cardinality(Dated) <= out.val.total_memories

(***************************************************************************)
(* The empty_content defect                                                *)
(***************************************************************************)
\* the text with the whitespace at both ends removed
RECURSIVE Trimmed(_)
Trimmed(text) ==
    IF Len(text) = 0 THEN text
    ELSE IF Head(text) \in Whitespace THEN Trimmed(Tail(text))
    ELSE IF text[Len(text)] \in Whitespace
    THEN Trimmed(SubSeq(text, 1, Len(text) - 1))
    ELSE text

\* the fields of m that may hold its content, in order
ContentFields(m) == <<PyGet(m, "memory", None), PyGet(m, "content", None), PyGet(m, "data", None)>>

\* the first field that is not null, empty when all are
FirstNonNull(m) ==
    LET f == ContentFields(m) IN
    IF \A k \in 1..3 : f[k] = None THEN <<>>
    ELSE f[CHOOSE k \in 1..3 : f[k] # None /\ \A j \in 1..(k - 1) : f[j] = None][1]

\* the first field that is neither null nor empty, empty when there is none
FirstNonEmpty(m) ==
    LET f == ContentFields(m) IN
    IF \A k \in 1..3 : f[k] = None \/ f[k] = Some(<<>>) THEN <<>>
    ELSE f[CHOOSE k \in 1..3 : /\ f[k] # None /\ f[k] # Some(<<>>)
                               /\ \A j \in 1..(k - 1) : f[j] = None \/ f[j] = Some(<<>>)][1]

\* C21 as stated: empty_content counts the records whose first non-null
\* field among memory, content and data has a trimmed length below 5, an
\* empty memory field being the resolved content whatever the later fields.
C21_FirstNonNullContent ==
    (AnalyzeReported /\ Len(Examined) > 0) =>
        out.val.quality_criteria.empty_content =
            Cardinality({i \in 1..Len(Examined) : Len(Trimmed(FirstNonNull(Examined[i]))) < MinContentLen})

\* C21 as amended: empty_content counts the records whose first field among
\* memory, content and data that is neither null nor empty has a trimmed
\* length below 5 (no such field counts as length 0).
C21_FirstNonEmptyContent ==
    (AnalyzeReported /\ Len(Examined) > 0) =>
        out.val.quality_criteria.empty_content =
            Cardinality({i \in 1..Len(Examined) : Len(Trimmed(FirstNonEmpty(Examined[i]))) < MinContentLen})

\* a report over one record with an empty memory field and a long content
\* field: the defect did not fire
C21_Witness ==
    /\ AnalyzeReported
    /\ Len(Examined) = 1
    /\ PyGet(Examined[1], "memory", None) = Some(<<>>)
    /\ Len(PyGet(Examined[1], "content", Some(<<>>))[1]) >= MinContentLen
    /\ out.val.quality_criteria.empty_content = 0

(***************************************************************************)
(* Metadata keys over a sequence of updates                                *)
(***************************************************************************)
\* an optional mapping as a mapping: no key when it is null
AsDict(o) == IF IsNone(o) THEN EmptyDict ELSE o[1]

\* the updates of the history that succeeded and supplied key
Suppliers(key) ==
    {i \in 1..Len(call.ops) :
        call.ops[i].ok /\ ~IsNone(call.ops[i].metadata) /\ key \in DOMAIN call.ops[i].metadata[1]}

Latest(S) == CHOOSE i \in S : \A j \in S : j <= i

\* the keys the record had at the start and those a successful update supplied
KeysSoFar ==
    DOMAIN AsDict(call.before[1].metadata)
    \cup UNION {DOMAIN AsDict(call.ops[i].metadata) : i \in {j \in 1..Len(call.ops) : call.ops[j].ok}}

\* C22: after any sequence of update_memory and batch_update_memories run
\* one after the other on a record, the stored metadata has every key the
\* record had at the start and every key a successful update supplied, each
\* with the value of the latest successful update that supplied it (the
\* value at the start when none did).
C22_KeysNeverDropped ==
    "ops" \in DOMAIN call =>
        LET stored == AsDict(store[1].metadata) IN
        \A key \in KeysSoFar :
            /\ key \in DOMAIN stored
            /\ stored[key] = IF Suppliers(key) # {}
                             THEN call.ops[Latest(Suppliers(key))].metadata[1][key]
                             ELSE AsDict(call.before[1].metadata)[key]

\* a record that had the key b got the key a from a first update and a new
\* value for a from a second one: it holds b and the latest a
C22_Witness ==
    /\ "ops" \in DOMAIN call
    /\ call.before[1].metadata = Some([b |-> 2])
    /\ Len(call.ops) = 2
    /\ call.ops[1] = Supplied(Some([a |-> 1]), TRUE)
    /\ call.ops[2] = Supplied(Some([a |-> 9]), TRUE)
    /\ store[1].metadata = Some([a |-> 9, b |-> 2])

(***************************************************************************)
(* Operations that fail before they reach the store                        *)
(***************************************************************************)
\* an update_memory or delete_memory that failed because the id is not in
\* the store, or an update_memory that failed for lack of content and metadata
Rejected ==
    /\ call.op \in {"update_memory", "delete_memory"}
    /\ IsRaised(out)
    /\ \/ IsRaised(call.existing) /\ call.existing.code = MEMORY_NOT_FOUND
       \/ call.op = "update_memory" /\ IsNone(call.content) /\ IsNone(call.metadata)

\* C23: an update_memory or delete_memory that fails because the id is not
\* found, or an update_memory that fails because neither content nor
\* metadata was supplied, has not invoked the store's update or delete and
\* leaves the records of the store as they were before the call.
C23_RejectedLeavesStore == [][Rejected' => (trace' = <<>> /\ store' = store)]_vars

\* an update_memory without content and metadata on a record the store
\* holds: it failed and no call reached the store
C23_Witness ==
    /\ call.op = "update_memory"
    /\ call.memory_id \in DOMAIN store
    /\ IsReturned(call.existing)
    /\ IsNone(call.content) /\ IsNone(call.metadata)
    /\ IsRaised(out)
    /\ trace = <<>>

(***************************************************************************)
(* bulk_delete_memories over repeated ids                                  *)
(***************************************************************************)
\* the store answers the lookup and deletes at item i
StoreWorksAt(i) == ~call.env[i].fault /\ call.env[i].d = Returned(TRUE)

\* the items at which a record is deleted: the first occurrence of an id the
\* store held at which the store works
DeletingItems ==
    {i \in 1..Len(call.items) :
        /\ call.items[i] \in DOMAIN call.before
        /\ StoreWorksAt(i)
        /\ \A j \in 1..(i - 1) : call.items[j] = call.items[i] => ~StoreWorksAt(j)}

\* the items up to i that are in S (or those that are not), in input order
RECURSIVE ItemsAt(_, _, _)
ItemsAt(S, in, i) ==
    IF i = 0 THEN <<>>
    ELSE IF (i \in S) = in THEN Append(ItemsAt(S, in, i - 1), call.items[i])
    ELSE ItemsAt(S, in, i - 1)

\* C24: bulk_delete_memories run alone: every id of the success list is
\* absent from the store afterwards; an id that occurs more than once is
\* deleted once, at its first occurrence (the first at which the store
\* works), and every later occurrence is recorded as a failure with the
\* NotFound error, so the id is in both lists.
C24_RepeatedIdDeletedOnce ==
    call.op = "bulk_delete_memories" =>
        /\ IsReturned(out)
        /\ \A k \in 1..Len(out.val.deleted) : out.val.deleted[k] \notin DOMAIN store
        /\ out.val.deleted = ItemsAt(DeletingItems, TRUE, Len(call.items))
        /\ [k \in 1..Len(out.val.failed) |-> out.val.failed[k].memory_id]
              = ItemsAt(DeletingItems, FALSE, Len(call.items))
        /\ \A i \in DeletingItems :
              /\ (\A j \in 1..(i - 1) : call.items[j] = call.items[i] => call.env[j].fault
                                                                        \/ call.env[j].d # Returned(TRUE))
              /\ \A j \in (i + 1)..Len(call.items) :
                    call.items[j] = call.items[i] =>
                       \E k \in 1..Len(out.val.failed) :
                          /\ out.val.failed[k].memory_id = call.items[i]
                          /\ (~call.env[j].fault =>
                                out.val.failed[k].error = NotFoundError(call.items[i]).message)

\* the same id twice, held by a store that works: deleted at the first
\* occurrence, a failure at the second, and the id is in both lists
C24_Witness ==
    /\ call.op = "bulk_delete_memories"
    /\ Len(call.items) = 2
    /\ call.items[1] = call.items[2]
    /\ call.items[1] \in DOMAIN call.before
    /\ StoreWorksAt(1) /\ StoreWorksAt(2)
    /\ IsReturned(out)
    /\ out.val.deleted = <<call.items[1]>>
    /\ Len(out.val.failed) = 1
    /\ out.val.failed[1].memory_id = call.items[1]
    /\ out.val.failed[1].error = NotFoundError(call.items[1]).message
    /\ call.items[1] \notin DOMAIN store

====
